---- MODULE Spec2Model ----
(***************************************************************************)
(* Model of the Math-Calculation site's computational kernel:             *)
(*   - graph distance metrics (bfsDistances, distanceMatrix, graphMetrics) *)
(*   - matrix algebra (parseMatrix, matrixAdd, matrixMul, determinant,     *)
(*     inverse)                                                            *)
(*   - expression evaluation (friendlyMathError, evaluateExpression)       *)
(*   - numeric calculus (numericDerivative, numericIntegral)               *)
(* Each cluster has its own specification over the shared variable list;  *)
(* the variables of the other clusters stay at their idle values.         *)
(***************************************************************************)
EXTENDS Integers, Sequences, FiniteSets, TLC

VARIABLES
    nodes,      \* Node[]  : sequence of node ids
    links,      \* Link[]  : sequence of [source, target]
    gcall,      \* which graph function has been called ("idle" before any call)
    gstart,     \* startId argument of the bfsDistances call (0 when not applicable)
    gout,       \* value returned by the graph function called
    bpc,        \* position inside bfsDistances: "idle", "loop", "done"
    badj,       \* the adj map of the running bfsDistances
    bstart,     \* startId of the running bfsDistances
    bdist,      \* the dist map of the running bfsDistances
    bq,         \* the queue q of the running bfsDistances
    bpushed,    \* per node id: how many times it was put on q
    text,       \* argument of parseMatrix
    pout,       \* outcome of parseMatrix: [err, val]
    pcall,      \* "idle" before parseMatrix is called, "done" after
    matA,       \* argument A of matrixAdd / matrixMul
    matB,       \* argument B of matrixAdd / matrixMul
    mcall,      \* "idle", "add" or "mul"
    mout,       \* outcome of the matrix call: [err, val]
    heap,       \* the row arrays in memory: reference -> row of numbers
    heap0,      \* the heap as it was when the call was made
    argA,       \* argument A of a call on the heap: sequence of row references
    argB,       \* argument B of a call on the heap (matrixAdd, matrixMul)
    dcall,      \* "idle", "det", "inv", "detinv", "add" or "mul"
    dout,       \* outcome of the call: [err, val]
    dtrace,     \* per elimination column: the candidate pivots and the row chosen
    dchain,     \* determinant of the inverse and of A, after "detinv"
    expr,       \* argument expr of evaluateExpression
    engine,     \* what math.evaluate does with the cleaned expression
    ecall,      \* "idle" before evaluateExpression is called, "done" after
    eout,       \* outcome of evaluateExpression
    cargs,      \* arguments of numericDerivative / numericIntegral
    ccall,      \* "idle", "deriv" or "integ"
    cout,   \* outcome of the numeric call: [err, val]
    ednodes,    \* nodes of the graph page: sequence of node objects
    edlinks,    \* links of the graph page: sequence of [source, target] endpoints
    newNodeId,  \* text of the new-node field
    src,        \* text of the edge-source field
    dst,        \* text of the edge-target field
    status,     \* status line of the graph page
    edlast, \* the last action of the graph page and whether it was rejected
    store1,     \* localStorage of the browser that builds the link: key -> item
    plink,      \* the share link built, as text
    store2,     \* localStorage of the browser that opens the link
    hret,   \* what hydrateProjectFromUrl returned ("none" before it ran)
    hist,       \* localStorage: what is under the history key (v2) and under the legacy key (v1)
    hnow,       \* the last value of Date.now()
    hcount,     \* how many items have been pushed
    hops,       \* how many history calls have been made
    hlast,  \* the last history call
    pgres,      \* the result field of the page that acted last
    pglast,     \* the last compute action: page, inputs and the kernel calls it made
    pgsteps,\* how many compute actions have been made
    opstore,    \* localStorage of the browser that opens the app
    opurl,      \* the address the app is opened at
    opshared,   \* the calculator state carried by the link, JNull without a link
    opfields,   \* the fields of the calculator page, <<>> before its first render
    opstatus,   \* the status line of App
    opphase,    \* how far the opening of the app has come
    opreported, \* the loading of the project has been reported
    opedited    \* the fields the user has edited

graphVars == <<nodes, links, gcall, gstart, gout>>
bfsVars == <<bpc, badj, bstart, bdist, bq, bpushed>>
parseVars == <<text, pout, pcall>>
matVars == <<matA, matB, mcall, mout>>
detVars == <<heap, heap0, argA, argB, dcall, dout, dtrace, dchain>>
evalVars == <<expr, engine, ecall, eout>>
calcVars == <<cargs, ccall, cout>>
\* the variables of the pages, of the history and of the project links
editVars == <<ednodes, edlinks, newNodeId, src, dst, status, edlast>>
projVars == <<store1, plink, store2, hret>>
histVars == <<hist, hnow, hcount, hops, hlast>>
pageVars == <<pgres, pglast, pgsteps>>
openVars == <<opstore, opurl, opshared, opfields, opstatus, opphase, opreported, opedited>>
restVars == <<editVars, projVars, histVars, pageVars, openVars>>
vars == <<nodes, links, gcall, gstart, gout, bpc, badj, bstart, bdist, bq, bpushed,
          text, pout, pcall, matA, matB, mcall, mout,
          heap, heap0, argA, argB, dcall, dout, dtrace, dchain,
          expr, engine, ecall, eout, cargs, ccall, cout,
         restVars>>

----------------------------------------------------------------------------
(* Bounds *)
MaxNodes == 4
MaxLinks == 3
BfsNodes == 3
BfsLinks == 3
PushCap == 2      \* the push counters saturate here

----------------------------------------------------------------------------
(* Generic helpers *)

\* F(v), v being computed once
Bind(v, F(_)) == CHOOSE out \in {F(x) : x \in {v}} : TRUE

Range(s) == {s[i] : i \in DOMAIN s}

RECURSIVE SetSum(_, _)
SetSum(S, f) ==
    IF S = {} THEN 0
    ELSE LET x == CHOOSE y \in S : TRUE IN f[x] + SetSum(S \ {x}, f)

SetMax(S) == CHOOSE x \in S : \A y \in S : y <= x
SetMin(S) == CHOOSE x \in S : \A y \in S : x <= y

RECURSIVE Gcd(_, _)
Gcd(a, b) == IF b = 0 THEN a ELSE Gcd(b, a % b)

\* sum / count on non-negative integers, kept as a fraction in lowest terms
Quot(sum, count) ==
    LET g == Gcd(sum, count) IN [num |-> sum \div g, den |-> count \div g]

----------------------------------------------------------------------------
(* Graph metrics: bfsDistances, distanceMatrix, graphMetrics *)

Infinity == 1000
IsFinite(d) == d # Infinity

\* variant: each link is entered under its source only
RECURSIVE AdjFromDirected(_, _, _)
AdjFromDirected(adj, ls, k) ==
    IF k > Len(ls) THEN adj
    ELSE LET e == ls[k]
             a1 == IF e.source \in DOMAIN adj
                   THEN [adj EXCEPT ![e.source] = Append(@, e.target)]
                   ELSE adj
         IN AdjFromDirected(a1, ls, k + 1)

\* adjacency map after links.forEach(...) has handled links[k..]
RECURSIVE AdjFrom(_, _, _)
AdjFrom(adj, ls, k) ==
    IF k > Len(ls) THEN adj
    ELSE LET e == ls[k]
             a1 == IF e.source \in DOMAIN adj
                   THEN [adj EXCEPT ![e.source] = Append(@, e.target)]
                   ELSE adj
             a2 == IF e.target \in DOMAIN a1
                   THEN [a1 EXCEPT ![e.target] = Append(@, e.source)]
                   ELSE a1
         IN AdjFrom(a2, ls, k + 1)

Adjacency(ns, ls) == AdjFrom([id \in Range(ns) |-> <<>>], ls, 1)

\* variant: the start is left at Infinity
InitDistNoStart(ns, startId) ==
    [id \in Range(ns) \cup {startId} |-> Infinity]

\* dist map before the loop: Infinity everywhere, 0 at startId
InitDist(ns, startId) ==
    [id \in Range(ns) \cup {startId} |-> IF id = startId THEN 0 ELSE Infinity]

\* variant: a discovered node gets the distance of u
VisitOneSameLevel(st, v, du) ==
    IF v \in DOMAIN st.dist /\ st.dist[v] = Infinity
    THEN [dist |-> [st.dist EXCEPT ![v] = du],
          q |-> Append(st.q, v),
          pushed |-> [st.pushed EXCEPT ![v] = IF @ < PushCap THEN @ + 1 ELSE @]]
    ELSE st

\* variant: a discovered node is queued but its distance is not written
VisitOneNoMark(st, v, du) ==
    IF v \in DOMAIN st.dist /\ st.dist[v] = Infinity
    THEN [dist |-> st.dist,
          q |-> Append(st.q, v),
          pushed |-> [st.pushed EXCEPT ![v] = IF @ < PushCap THEN @ + 1 ELSE @]]
    ELSE st

\* body of the for-loop for one neighbour v of u, on st = [dist, q, pushed]
VisitOne(st, v, du) ==
    IF v \in DOMAIN st.dist /\ st.dist[v] = Infinity
    THEN [dist |-> [st.dist EXCEPT ![v] = du + 1],
          q |-> Append(st.q, v),
          pushed |-> [st.pushed EXCEPT ![v] = IF @ < PushCap THEN @ + 1 ELSE @]]
    ELSE st

\* the for-loop over the neighbours nb[k..] of u
RECURSIVE Visit(_, _, _, _)
Visit(st, nb, k, du) ==
    IF k > Len(nb) THEN st
    ELSE Visit(VisitOne(st, nb[k], du), nb, k + 1, du)

\* one iteration of while (q.length)
BfsIter(adj, st) ==
    LET u == Head(st.q)
        du == st.dist[u]
        nb == IF u \in DOMAIN adj THEN adj[u] ELSE <<>>
    IN Visit([st EXCEPT !.q = Tail(st.q)], nb, 1, du)

RECURSIVE BfsRun(_, _)
BfsRun(adj, st) == IF st.q = <<>> THEN st ELSE BfsRun(adj, BfsIter(adj, st))

BfsInitState(ns, startId) ==
    [dist |-> InitDist(ns, startId),
     q |-> <<startId>>,
     pushed |-> [id \in Range(ns) \cup {startId} |-> IF id = startId THEN 1 ELSE 0]]

bfsDistances(ns, ls, startId) ==
    BfsRun(Adjacency(ns, ls), BfsInitState(ns, startId)).dist

distanceMatrix(ns, ls) ==
    [ids |-> ns,
     mat |-> [i \in 1..Len(ns) |->
                LET dist == bfsDistances(ns, ls, ns[i]) IN
                [j \in 1..Len(ns) |->
                    IF ns[j] \in DOMAIN dist THEN dist[ns[j]] ELSE Infinity]]]

\* variant: the Number.isFinite test is missing
RECURSIVE RowMaxAny(_, _, _)
RowMaxAny(row, j, maxd) ==
    IF j > Len(row) THEN maxd
    ELSE RowMaxAny(row, j + 1, IF row[j] > maxd THEN row[j] ELSE maxd)

\* inner loop of the eccentricity computation for row i, columns j..n
RECURSIVE RowMax(_, _, _)
RowMax(row, j, maxd) ==
    IF j > Len(row) THEN maxd
    ELSE RowMax(row, j + 1,
                IF IsFinite(row[j]) /\ row[j] > maxd THEN row[j] ELSE maxd)

RECURSIVE DiamFrom(_, _, _)
DiamFrom(ecc, i, diameter) ==
    IF i > Len(ecc) THEN diameter
    ELSE DiamFrom(ecc, i + 1, IF ecc[i] > diameter THEN ecc[i] ELSE diameter)

\* variant: Math.max in place of Math.min
RadiusOfMax(ecc) == IF Len(ecc) # 0 THEN SetMax(Range(ecc)) ELSE 0

\* radius: ecc.length ? Math.min(...ecc) : 0
RadiusOf(ecc) == IF Len(ecc) # 0 THEN SetMin(Range(ecc)) ELSE 0

\* variant: every pair is counted, reachable or not
RECURSIVE PairAccCountAll(_, _, _, _)
PairAccCountAll(mat, i, j, acc) ==
    LET n == Len(mat) IN
    IF i > n THEN acc
    ELSE IF j > n THEN PairAccCountAll(mat, i + 1, i + 2, acc)
    ELSE PairAccCountAll(mat, i, j + 1,
                 IF IsFinite(mat[i][j])
                 THEN [sum |-> acc.sum + mat[i][j], count |-> acc.count + 1]
                 ELSE [sum |-> acc.sum, count |-> acc.count + 1])

\* the pair loops: acc = [sum, count] over pairs (i, j), i < j
RECURSIVE PairAcc(_, _, _, _)
PairAcc(mat, i, j, acc) ==
    LET n == Len(mat) IN
    IF i > n THEN acc
    ELSE IF j > n THEN PairAcc(mat, i + 1, i + 2, acc)
    ELSE PairAcc(mat, i, j + 1,
                 IF IsFinite(mat[i][j])
                 THEN [sum |-> acc.sum + mat[i][j], count |-> acc.count + 1]
                 ELSE acc)

graphMetrics(ns, ls) ==
    LET dm == distanceMatrix(ns, ls)
        ecc == [i \in 1..Len(dm.ids) |-> RowMax(dm.mat[i], 1, 0)]
        diameter == DiamFrom(ecc, 1, 0)
        radius == RadiusOf(ecc)
        acc == PairAcc(dm.mat, 1, 2, [sum |-> 0, count |-> 0])
        avg == IF acc.count # 0 THEN Quot(acc.sum, acc.count) ELSE Quot(0, 1)
    IN [ids |-> dm.ids, mat |-> dm.mat, diameter |-> diameter,
        radius |-> radius, avgDistance |-> avg]

----------------------------------------------------------------------------
(* Inputs of the graph functions *)

\* node arrays with unique ids 1..n, stored in ascending or descending order
NodeSeqs(maxN) ==
    {[i \in 1..n |-> i] : n \in 0..maxN} \cup
    {[i \in 1..n |-> n + 1 - i] : n \in 0..maxN}

\* link arrays between existing nodes: any orientation, repetitions allowed
LinkSeqs(ns, maxL) ==
    UNION {[1..k -> [source : Range(ns), target : Range(ns)]] : k \in 0..maxL}

----------------------------------------------------------------------------
(* Idle values of each cluster *)

GraphIdle ==
    /\ nodes = <<>> /\ links = <<>>
    /\ gcall = "idle" /\ gstart = 0 /\ gout = <<>>

BfsIdle ==
    /\ bpc = "idle" /\ badj = <<>> /\ bstart = 0
    /\ bdist = <<>> /\ bq = <<>> /\ bpushed = <<>>

ParseIdle == text = <<>> /\ pout = <<>> /\ pcall = "idle"

MatIdle == matA = <<>> /\ matB = <<>> /\ mcall = "idle" /\ mout = <<>>

DetIdle ==
    /\ heap = <<>> /\ heap0 = <<>> /\ argA = <<>> /\ argB = <<>>
    /\ dcall = "idle" /\ dout = <<>> /\ dtrace = <<>> /\ dchain = <<>>

EvalIdle == expr = <<>> /\ engine = <<>> /\ ecall = "idle" /\ eout = <<>>

CalcIdle == cargs = <<>> /\ ccall = "idle" /\ cout = <<>>

EditIdle ==
    /\ ednodes = <<>>
    /\ edlinks = <<>>
    /\ newNodeId = <<>>
    /\ src = <<>>
    /\ dst = <<>>
    /\ status = ""
    /\ edlast = <<>>

ProjIdle ==
    /\ store1 = <<>>
    /\ plink = <<>>
    /\ store2 = <<>>
    /\ hret = "none"

HistIdle ==
    /\ hist = <<>>
    /\ hnow = 0
    /\ hcount = 0
    /\ hops = 0
    /\ hlast = <<>>

PageIdle ==
    /\ pgres = <<>>
    /\ pglast = <<>>
    /\ pgsteps = 0

OpenIdle ==
    /\ opstore = <<>>
    /\ opurl = <<>>
    /\ opshared = <<>>
    /\ opfields = <<>>
    /\ opstatus = ""
    /\ opphase = "idle"
    /\ opreported = FALSE
    /\ opedited = {}

RestIdle == EditIdle /\ ProjIdle /\ HistIdle /\ PageIdle /\ OpenIdle

----------------------------------------------------------------------------
(* Specification of the graph functions as calls *)

InitGraph ==
    /\ nodes \in NodeSeqs(MaxNodes)
    /\ links \in LinkSeqs(nodes, MaxLinks)
    /\ gcall = "idle" /\ gstart = 0 /\ gout = <<>>
    /\ BfsIdle /\ ParseIdle /\ MatIdle
    /\ DetIdle /\ EvalIdle /\ CalcIdle /\ RestIdle

CallBfsDistances ==
    /\ gcall = "idle"
    /\ \E s \in Range(nodes) :
        /\ gstart' = s
        /\ gout' = bfsDistances(nodes, links, s)
    /\ gcall' = "bfs"
    /\ UNCHANGED <<nodes, links, bfsVars, parseVars, matVars, detVars, evalVars, calcVars, restVars>>

CallDistanceMatrix ==
    /\ gcall = "idle"
    /\ gcall' = "matrix"
    /\ gout' = distanceMatrix(nodes, links)
    /\ UNCHANGED <<nodes, links, gstart, bfsVars, parseVars, matVars, detVars, evalVars, calcVars, restVars>>

CallGraphMetrics ==
    /\ gcall = "idle"
    /\ gcall' = "metrics"
    /\ gout' = graphMetrics(nodes, links)
    /\ UNCHANGED <<nodes, links, gstart, bfsVars, parseVars, matVars, detVars, evalVars, calcVars, restVars>>

NextGraph == CallBfsDistances \/ CallDistanceMatrix \/ CallGraphMetrics

SpecGraph == InitGraph /\ [][NextGraph]_vars

----------------------------------------------------------------------------
(* Reference notions the graph claims are stated against: hop distance    *)
(* defined from the edge relation by growing balls, not by a queue.       *)

Joined(v, w) ==
    \E k \in DOMAIN links :
        \/ links[k].source = v /\ links[k].target = w
        \/ links[k].source = w /\ links[k].target = v

\* hop distances from s, by layers: d is settled on seen, frontier is the
\* set of nodes at exactly k hops
RECURSIVE Layers(_, _, _, _)
Layers(d, frontier, seen, k) ==
    IF frontier = {} THEN d
    ELSE LET next == {w \in Range(nodes) \ seen : \E v \in frontier : Joined(v, w)}
         IN Layers([w \in DOMAIN d |-> IF w \in next THEN k + 1 ELSE d[w]],
                   next, seen \cup next, k + 1)

HopsFrom(s) ==
    Layers([w \in Range(nodes) |-> IF w = s THEN 0 ELSE Infinity], {s}, {s}, 0)

Hops(s, t) == HopsFrom(s)[t]

Ecc(v) == SetMax({Hops(v, w) : w \in {x \in Range(nodes) : Hops(v, x) # Infinity}})

FinitePairs ==
    {p \in (1..Len(nodes)) \X (1..Len(nodes)) :
        p[1] < p[2] /\ Hops(nodes[p[1]], nodes[p[2]]) # Infinity}

PairHops == [p \in FinitePairs |-> Hops(nodes[p[1]], nodes[p[2]])]

\* C1: bfsDistances returns, for every node, the length in hops of a
\* shortest path from start, and Infinity exactly for the unreachable nodes.
BfsDistancesAreShortest ==
    gcall = "bfs" =>
        /\ DOMAIN gout = Range(nodes)
        /\ gout = HopsFrom(gstart)
        /\ gout[gstart] = 0

BfsDistancesWitness ==
    /\ gcall = "bfs"
    /\ \E a, b \in Range(nodes) : gout[a] = 2 /\ gout[b] = Infinity

\* C2: the matrix returned by distanceMatrix is symmetric.
DistanceMatrixSymmetric ==
    gcall = "matrix" =>
        \A i, j \in 1..Len(nodes) : gout.mat[i][j] = gout.mat[j][i]

DistanceMatrixSymmetricWitness ==
    /\ gcall = "matrix"
    /\ \E i, j, k \in 1..Len(nodes) :
        /\ i < j
        /\ gout.mat[i][j] = 2
        /\ gout.mat[i][k] = Infinity
    /\ \E e \in Range(links) : e.source > e.target
    /\ \E e \in Range(links) : e.source < e.target

\* C3: distanceMatrix returns a |nodes| x |nodes| matrix with zero diagonal.
DistanceMatrixDiagonalZero ==
    gcall = "matrix" =>
        /\ Len(gout.mat) = Len(nodes)
        /\ \A i \in 1..Len(nodes) :
            /\ Len(gout.mat[i]) = Len(nodes)
            /\ gout.mat[i][i] = 0

DistanceMatrixDiagonalWitness ==
    /\ gcall = "matrix"
    /\ Len(nodes) = MaxNodes
    /\ \E e \in Range(links) : e.source = e.target
    /\ \E e \in Range(links) : e.source # e.target

\* C4: diameter is the largest and radius the smallest eccentricity, where
\* the eccentricity of v is its largest finite distance (0 when isolated);
\* both are 0 on the empty graph and infinite distances never enter.
MetricsEccentricity ==
    gcall = "metrics" =>
        /\ gout.diameter # Infinity /\ gout.radius # Infinity
        /\ IF nodes = <<>>
           THEN gout.diameter = 0 /\ gout.radius = 0
           ELSE /\ gout.diameter = SetMax({Ecc(v) : v \in Range(nodes)})
                /\ gout.radius = SetMin({Ecc(v) : v \in Range(nodes)})

MetricsEccentricityWitness ==
    /\ gcall = "metrics"
    /\ gout.diameter = 2 /\ gout.radius = 0
    /\ \E i, j \in 1..Len(nodes) : gout.mat[i][j] = Infinity

\* C5: avgDistance is the sum of the finite distances over unordered pairs
\* divided by the number of those pairs, and 0 when there is no such pair.
MetricsAverageDistance ==
    gcall = "metrics" =>
        IF FinitePairs = {}
        THEN gout.avgDistance.num = 0 /\ gout.avgDistance.den = 1
        ELSE /\ gout.avgDistance.den > 0
             /\ gout.avgDistance.num * Cardinality(FinitePairs)
                    = SetSum(FinitePairs, PairHops) * gout.avgDistance.den

MetricsAverageWitness ==
    /\ gcall = "metrics"
    /\ Len(nodes) = 4
    /\ Cardinality(FinitePairs) = 3
    /\ gout.avgDistance = [num |-> 4, den |-> 3]

\* the graph is the path on its n nodes: one link per consecutive pair
IsPath ==
    /\ Len(nodes) >= 2
    /\ Len(links) = Len(nodes) - 1
    /\ \A i \in 1..(Len(nodes) - 1) : Joined(nodes[i], nodes[i + 1])

PathPairs == {p \in (1..Len(nodes)) \X (1..Len(nodes)) : p[1] < p[2]}

\* C6: on the path graph with n >= 2 nodes, diameter = n-1,
\* radius = ceil((n-1)/2) and avgDistance = (sum of j-i over i<j) / C(n,2).
PathGraphMetrics ==
    (gcall = "metrics" /\ IsPath) =>
        LET n == Len(nodes) IN
        /\ gout.diameter = n - 1
        /\ gout.radius = ((n - 1) \div 2) + ((n - 1) % 2)
        /\ gout.avgDistance.num * ((n * (n - 1)) \div 2)
              = SetSum(PathPairs, [p \in PathPairs |-> p[2] - p[1]])
                    * gout.avgDistance.den

PathGraphWitness ==
    /\ gcall = "metrics"
    /\ nodes = <<1, 2, 3, 4>>
    /\ links = <<[source |-> 1, target |-> 2], [source |-> 2, target |-> 3],
                 [source |-> 3, target |-> 4]>>
    /\ gout.diameter = 3 /\ gout.radius = 2
    /\ gout.avgDistance = [num |-> 5, den |-> 3]

----------------------------------------------------------------------------
(* Specification of bfsDistances run one loop iteration at a time *)

InitBfs == GraphIdle /\ BfsIdle /\ ParseIdle /\ MatIdle
    /\ DetIdle /\ EvalIdle /\ CalcIdle /\ RestIdle

\* the call, lines 11-22: adjacency and dist are built, q = [startId]
BfsEnter ==
    /\ bpc = "idle"
    /\ \E ns \in NodeSeqs(BfsNodes) : \E ls \in LinkSeqs(ns, BfsLinks) :
       \E s \in Range(ns) :
        LET st == BfsInitState(ns, s) IN
        /\ nodes' = ns
        /\ links' = ls
        /\ badj' = Adjacency(ns, ls)
        /\ bstart' = s
        /\ bdist' = st.dist
        /\ bq' = st.q
        /\ bpushed' = st.pushed
    /\ bpc' = "loop"
    /\ UNCHANGED <<gcall, gstart, gout, parseVars, matVars, detVars, evalVars, calcVars, restVars>>

\* lines 23-32: one iteration of the while loop
BfsLoop ==
    /\ bpc = "loop"
    /\ bq # <<>>
    /\ \E st \in {BfsIter(badj, [dist |-> bdist, q |-> bq, pushed |-> bpushed])} :
        /\ bdist' = st.dist
        /\ bq' = st.q
        /\ bpushed' = st.pushed
    /\ UNCHANGED <<bpc, badj, bstart, graphVars, parseVars, matVars, detVars, evalVars, calcVars, restVars>>

\* line 33: the loop condition fails and dist is returned
BfsReturn ==
    /\ bpc = "loop"
    /\ bq = <<>>
    /\ bpc' = "done"
    /\ UNCHANGED <<badj, bstart, bdist, bq, bpushed, graphVars, parseVars, matVars, detVars, evalVars, calcVars, restVars>>

NextBfs == BfsEnter \/ BfsLoop \/ BfsReturn

\* the loop is straight-line synchronous code: it keeps running
SpecBfs ==
    InitBfs /\ [][NextBfs]_vars /\ WF_vars(BfsLoop) /\ WF_vars(BfsReturn)

\* C7: every node is put on the queue at most once, and a started
\* bfsDistances reaches its return.
BfsTerminates ==
    /\ [](bpc # "idle" => \A v \in DOMAIN bpushed : bpushed[v] <= 1)
    /\ ((bpc = "loop") ~> (bpc = "done"))

\* a finished run that reached three nodes over a link stored twice, once in
\* each orientation
BfsTerminatesWitness ==
    /\ bpc = "done"
    /\ Len(nodes) = 3
    /\ \E i, j \in DOMAIN links :
        /\ links[i].source # links[i].target
        /\ links[j] = [source |-> links[i].target, target |-> links[i].source]
    /\ \A v \in Range(nodes) : bpushed[v] = 1 /\ bdist[v] # Infinity

----------------------------------------------------------------------------
(* parseMatrix: text is a sequence of characters *)

MaxTextLen == 5

Digits == {"0", "1", "2", "3", "4", "5", "6", "7", "8", "9"}
DigitVal(c) ==
    CASE c = "0" -> 0 [] c = "1" -> 1 [] c = "2" -> 2 [] c = "3" -> 3
      [] c = "4" -> 4 [] c = "5" -> 5 [] c = "6" -> 6 [] c = "7" -> 7
      [] c = "8" -> 8 [] c = "9" -> 9

Whitespace == {" ", "\n"}        \* what \s and trim() match in the inputs used
RowSeps == {"\n", ";"}           \* /\n|;/
CellSeps == {" ", "\n", ","}     \* /\s+|,/

NonNumericMsg == "Matrix contains non-numeric value."
EmptyMsg == "Empty matrix."
RaggedMsg == "All rows must have the same number of columns."

\* String.prototype.trim
RECURSIVE TrimLeft(_)
TrimLeft(s) ==
    IF s # <<>> /\ Head(s) \in Whitespace THEN TrimLeft(Tail(s)) ELSE s

RECURSIVE TrimRight(_)
TrimRight(s) ==
    IF s # <<>> /\ s[Len(s)] \in Whitespace
    THEN TrimRight(SubSeq(s, 1, Len(s) - 1))
    ELSE s

Trim(s) == TrimRight(TrimLeft(s))

\* s.split(seps): pieces between separator characters, empty pieces kept
\* (a run matched by \s+ yields no empty piece; the single-character split
\* yields empty pieces there, which filter(Boolean) drops afterwards)
RECURSIVE SplitFrom(_, _, _, _, _)
SplitFrom(s, seps, i, cur, pieces) ==
    IF i > Len(s) THEN Append(pieces, cur)
    ELSE IF s[i] \in seps
         THEN SplitFrom(s, seps, i + 1, <<>>, Append(pieces, cur))
         ELSE SplitFrom(s, seps, i + 1, Append(cur, s[i]), pieces)

Split(s, seps) == SplitFrom(s, seps, 1, <<>>, <<>>)

NonEmpty(piece) == piece # <<>>

MapTrim(pieces) == [k \in 1..Len(pieces) |-> Trim(pieces[k])]

\* rows: text.trim().split(/\n|;/).map(trim).filter(Boolean)
RowsOf(t) == SelectSeq(MapTrim(Split(Trim(t), RowSeps)), NonEmpty)

\* cells of a row: r.split(/\s+|,/).map(trim).filter(Boolean)
CellsOf(r) == SelectSeq(MapTrim(Split(r, CellSeps)), NonEmpty)

\* Number(c) for a cell without whitespace: decimal digits give their value,
\* anything else gives NaN
RECURSIVE DecFrom(_, _, _)
DecFrom(c, i, acc) ==
    IF i > Len(c) THEN acc ELSE DecFrom(c, i + 1, 10 * acc + DigitVal(c[i]))

NumberOf(c) ==
    IF \A i \in 1..Len(c) : c[i] \in Digits
    THEN [finite |-> TRUE, v |-> DecFrom(c, 1, 0)]
    ELSE [finite |-> FALSE, v |-> 0]

Fail(msg) == [err |-> msg, val |-> <<>>]
Return(v) == [err |-> "", val |-> v]

\* variant: the row lengths are not compared
parseMatrixAnyRows(t) ==
    LET rows == RowsOf(t)
        cells == [r \in 1..Len(rows) |-> CellsOf(rows[r])]
        matrix == [r \in 1..Len(rows) |->
                     [c \in 1..Len(cells[r]) |-> NumberOf(cells[r][c]).v]]
        cols == IF Len(matrix) > 0 THEN Len(matrix[1]) ELSE 0
    IN IF \E r \in 1..Len(rows) : \E c \in 1..Len(cells[r]) :
            ~NumberOf(cells[r][c]).finite
       THEN Fail(NonNumericMsg)
       ELSE IF cols = 0 THEN Fail(EmptyMsg)
       ELSE Return(matrix)

parseMatrix(t) ==
    LET rows == RowsOf(t)
        cells == [r \in 1..Len(rows) |-> CellsOf(rows[r])]
        matrix == [r \in 1..Len(rows) |->
                     [c \in 1..Len(cells[r]) |-> NumberOf(cells[r][c]).v]]
        cols == IF Len(matrix) > 0 THEN Len(matrix[1]) ELSE 0
    IN IF \E r \in 1..Len(rows) : \E c \in 1..Len(cells[r]) :
            ~NumberOf(cells[r][c]).finite
       THEN Fail(NonNumericMsg)
       ELSE IF cols = 0 THEN Fail(EmptyMsg)
       ELSE IF \E r \in 1..Len(matrix) : Len(matrix[r]) # cols
       THEN Fail(RaggedMsg)
       ELSE Return(matrix)

\* texts handed to parseMatrix
Chars == {"1", "2", "a", " ", ",", "\n", ";"}

ExampleTexts ==
    {<<"1", " ", "2", "\n", "3", " ", "4">>, <<"1", " ", "2", "\n", "3">>}

Texts == UNION {[1..k -> Chars] : k \in 0..MaxTextLen} \cup ExampleTexts

InitParse ==
    /\ text \in Texts
    /\ pout = <<>> /\ pcall = "idle"
    /\ GraphIdle /\ BfsIdle /\ MatIdle
    /\ DetIdle /\ EvalIdle /\ CalcIdle /\ RestIdle

CallParseMatrix ==
    /\ pcall = "idle"
    /\ pcall' = "done"
    /\ pout' = parseMatrix(text)
    /\ UNCHANGED <<text, graphVars, bfsVars, matVars, detVars, evalVars, calcVars, restVars>>

NextParse == CallParseMatrix

SpecParse == InitParse /\ [][NextParse]_vars

----------------------------------------------------------------------------
(* What parseMatrix is to accept, read off the positions of the text *)

AnySep(c) == c \in RowSeps \cup CellSeps

\* number of row separators before position i
SegOf(i) == Cardinality({k \in 1..(i - 1) : text[k] \in RowSeps})

CellStarts ==
    {i \in 1..Len(text) : ~AnySep(text[i]) /\ (i = 1 \/ AnySep(text[i - 1]))}

CellEnd(i) ==
    SetMax({j \in i..Len(text) : \A k \in i..j : ~AnySep(text[k])})

CellNumeric(i) == \A k \in i..CellEnd(i) : text[k] \in Digits

RECURSIVE CellValue(_, _)
CellValue(i, j) ==
    IF j < i THEN 0 ELSE 10 * CellValue(i, j - 1) + DigitVal(text[j])

\* segments holding something other than blanks
RowSegs ==
    {SegOf(i) : i \in {k \in 1..Len(text) : text[k] \notin RowSeps \cup Whitespace}}

CellsIn(s) == {i \in CellStarts : SegOf(i) = s}

\* the elements of a finite set of integers in increasing order
RECURSIVE Ascending(_)
Ascending(S) ==
    IF S = {} THEN <<>> ELSE <<SetMin(S)>> \o Ascending(S \ {SetMin(S)})

Parsable ==
    /\ RowSegs # {}
    /\ \A i \in CellStarts : CellNumeric(i)
    /\ \E n \in 1..Len(text) : \A s \in RowSegs : Cardinality(CellsIn(s)) = n

ExpectedMatrix ==
    LET segs == Ascending(RowSegs) IN
    [r \in 1..Len(segs) |->
        LET starts == Ascending(CellsIn(segs[r])) IN
        [c \in 1..Len(starts) |-> CellValue(starts[c], CellEnd(starts[c]))]]

\* C8: parseMatrix returns a matrix exactly when there is a non-empty row,
\* every cell is a number and all rows have the same non-zero length; the
\* matrix returned is rectangular, at least 1 x 1, and holds the cells in
\* order; otherwise it fails with one of the three parse errors.
ParseMatrixContract ==
    pcall = "done" =>
        /\ (pout.err = "") <=> Parsable
        /\ pout.err = "" =>
            /\ pout.val = ExpectedMatrix
            /\ Len(pout.val) >= 1
            /\ \A r \in 1..Len(pout.val) :
                Len(pout.val[r]) = Len(pout.val[1]) /\ Len(pout.val[r]) >= 1
        /\ pout.err # "" =>
            /\ pout.err \in {NonNumericMsg, EmptyMsg, RaggedMsg}
            /\ pout.val = <<>>
        /\ text = <<"1", " ", "2", "\n", "3", " ", "4">> =>
            pout = Return(<<(<<1, 2>>), (<<3, 4>>)>>)
        /\ text = <<"1", " ", "2", "\n", "3">> => pout = Fail(RaggedMsg)

ParseMatrixWitness ==
    /\ pcall = "done"
    /\ text = <<"1", " ", "2", "\n", "3">>
    /\ pout.err = RaggedMsg

----------------------------------------------------------------------------
(* matrixAdd, matrixMul: a Matrix is a sequence of rows of numbers *)

MaxRows == 2
MaxCols == 2
MaxEntry == 2

SizeMsg == "Matrix sizes must match."
InnerMsg == "A columns must equal B rows."

\* variant: only the row counts are compared; a cell B lacks reads as NaN
matrixAddRowsOnly(A, B) ==
    IF Len(A) # Len(B)
    THEN Fail(SizeMsg)
    ELSE Return([i \in 1..Len(A) |->
                    [j \in 1..Len(A[i]) |->
                        IF j <= Len(B[i]) THEN A[i][j] + B[i][j] ELSE "NaN"]])

matrixAdd(A, B) ==
    IF Len(A) # Len(B) \/ Len(A[1]) # Len(B[1])
    THEN Fail(SizeMsg)
    ELSE Return([i \in 1..Len(A) |->
                    [j \in 1..Len(A[i]) |-> A[i][j] + B[i][j]]])

\* variant: = in place of +=
RECURSIVE MulAccAssign(_, _, _, _, _, _)
MulAccAssign(A, B, i, j, k, acc) ==
    IF k > Len(A[1]) THEN acc
    ELSE MulAccAssign(A, B, i, j, k + 1, A[i][k] * B[k][j])

\* the k-loop for one cell: out[i][j] += A[i][k] * B[k][j], k = k..n
RECURSIVE MulAcc(_, _, _, _, _, _)
MulAcc(A, B, i, j, k, acc) ==
    IF k > Len(A[1]) THEN acc
    ELSE MulAcc(A, B, i, j, k + 1, acc + A[i][k] * B[k][j])

matrixMul(A, B) ==
    LET m == Len(A)
        n == Len(A[1])
        p == Len(B[1])
    IN IF n # Len(B)
       THEN Fail(InnerMsg)
       ELSE Return([i \in 1..m |-> [j \in 1..p |-> MulAcc(A, B, i, j, 1, 0)]])

\* rectangular matrices with at least one row and one column
Matrices ==
    UNION {[1..r -> [1..c -> 0..MaxEntry]] : r \in 1..MaxRows, c \in 1..MaxCols}

InitMat ==
    /\ matA \in Matrices
    /\ matB \in Matrices
    /\ mcall = "idle" /\ mout = <<>>
    /\ GraphIdle /\ BfsIdle /\ ParseIdle
    /\ DetIdle /\ EvalIdle /\ CalcIdle /\ RestIdle

CallMatrixAdd ==
    /\ mcall = "idle"
    /\ mcall' = "add"
    /\ mout' = matrixAdd(matA, matB)
    /\ UNCHANGED <<matA, matB, graphVars, bfsVars, parseVars, detVars, evalVars, calcVars, restVars>>

CallMatrixMul ==
    /\ mcall = "idle"
    /\ mcall' = "mul"
    /\ mout' = matrixMul(matA, matB)
    /\ UNCHANGED <<matA, matB, graphVars, bfsVars, parseVars, detVars, evalVars, calcVars, restVars>>

NextMat == CallMatrixAdd \/ CallMatrixMul

SpecMat == InitMat /\ [][NextMat]_vars

Rows(M) == Len(M)
Cols(M) == Len(M[1])
HasShape(M, r, c) == Len(M) = r /\ \A i \in 1..r : Len(M[i]) = c

Identity(n) == [i \in 1..n |-> [j \in 1..n |-> IF i = j THEN 1 ELSE 0]]

\* C9: matrixAdd fails exactly when the shapes differ and matrixMul exactly
\* when cols(A) # rows(B); a failing call returns no matrix, a successful
\* one a matrix of shape rows(A) x cols(A) (add) or rows(A) x cols(B) (mul).
DimensionMismatch ==
    /\ mcall = "add" =>
        IF Rows(matA) # Rows(matB) \/ Cols(matA) # Cols(matB)
        THEN mout = Fail(SizeMsg)
        ELSE mout.err = "" /\ HasShape(mout.val, Rows(matA), Cols(matA))
    /\ mcall = "mul" =>
        IF Cols(matA) # Rows(matB)
        THEN mout = Fail(InnerMsg)
        ELSE mout.err = "" /\ HasShape(mout.val, Rows(matA), Cols(matB))

DimensionMismatchWitness ==
    /\ mcall = "add"
    /\ Rows(matA) = Rows(matB) /\ Cols(matA) # Cols(matB)
    /\ mout.err = SizeMsg

\* C10: matrixMul returns the matrix product, so A times the identity is A.
ProductIsStandard ==
    (mcall = "mul" /\ mout.err = "") =>
        /\ \A i \in 1..Rows(matA) : \A j \in 1..Cols(matB) :
            mout.val[i][j] =
                SetSum(1..Cols(matA), [k \in 1..Cols(matA) |-> matA[i][k] * matB[k][j]])
        /\ matB = Identity(Cols(matA)) => mout.val = matA

ProductIsStandardWitness ==
    /\ mcall = "mul"
    /\ matB = Identity(2)
    /\ Rows(matA) = 2 /\ Cols(matA) = 2
    /\ matA[1][2] # matA[2][1] /\ matA[1][1] # matA[2][2]
    /\ mout.val = matA

----------------------------------------------------------------------------
(* Exact numbers: a number is a fraction [num, den] in lowest terms, den > 0 *)

Abs(n) == IF n < 0 THEN 0 - n ELSE n

Frac(n, d) ==
    LET g == Gcd(Abs(n), Abs(d))
        s == IF d < 0 THEN 0 - 1 ELSE 1
    IN [num |-> (s * n) \div g, den |-> (s * d) \div g]

Num(n) == [num |-> n, den |-> 1]

RAdd(a, b) == Frac(a.num * b.den + b.num * a.den, a.den * b.den)
RSub(a, b) == Frac(a.num * b.den - b.num * a.den, a.den * b.den)
RMul(a, b) == Frac(a.num * b.num, a.den * b.den)
RDiv(a, b) == Frac(a.num * b.den, a.den * b.num)
RAbs(a) == [num |-> Abs(a.num), den |-> a.den]
RLess(a, b) == a.num * b.den < b.num * a.den

\* 1e-12 is 1 / (EpsRoot * EpsRoot)
EpsRoot == 1000000

\* Math.abs(v) < 1e-12, computed without leaving the machine integers
BelowEps(v) ==
    LET a == Abs(v.num) IN
    \/ a = 0
    \/ /\ a <= (v.den \div EpsRoot) \div EpsRoot
       /\ a * EpsRoot * EpsRoot < v.den

----------------------------------------------------------------------------
(* determinant, inverse: rows live on the heap, a Matrix is a sequence of   *)
(* row references, so that copies and writes through a reference differ     *)

DetMaxN == 3       \* largest number of rows and of columns
DetMaxEntry == 1   \* entries are the integers -1 .. DetMaxEntry

NotSquareDetMsg == "Determinant requires a square matrix."
NotSquareInvMsg == "Inverse requires a square matrix."
SingularMsg == "Matrix is singular (no inverse)."

\* the matrix of numbers a sequence of references stands for
Deref(h, M) == [i \in 1..Len(M) |-> h[M[i]]]

\* references of n rows allocated after the rows of h
NewRefs(h, n) == [i \in 1..n |-> Len(h) + i]

\* variant: the rows are not copied, M holds A's own rows
CopyRowsShared(h, A) == [h |-> h, M |-> A]

\* A.map((r) => r.slice())
CopyRows(h, A) ==
    [h |-> h \o [i \in 1..Len(A) |-> h[A[i]]], M |-> NewRefs(h, Len(A))]

\* A.map((r, i) => r.concat(<row i of the identity>))
AugmentRows(h, A) ==
    LET n == Len(A) IN
    [h |-> h \o [i \in 1..n |->
                    h[A[i]] \o [j \in 1..n |-> IF i = j THEN Num(1) ELSE Num(0)]],
     M |-> NewRefs(h, n)]

\* M.map((r) => r.slice(n))
SliceRows(h, M, n) ==
    [h |-> h \o [i \in 1..Len(M) |-> SubSeq(h[M[i]], n + 1, Len(h[M[i]]))],
     M |-> NewRefs(h, Len(M))]

\* variant: the candidates are compared without Math.abs
RECURSIVE PivotScanSigned(_, _, _, _, _)
PivotScanSigned(h, M, i, r, pivot) ==
    IF r > Len(M) THEN pivot
    ELSE PivotScanSigned(h, M, i, r + 1,
            IF RLess(h[M[pivot]][i], h[M[r]][i]) THEN r ELSE pivot)

\* for (r = i; r < n; r++) if (|M[r][i]| > |M[pivot][i]|) pivot = r
\* (the same loop in determinant and in inverse)
RECURSIVE PivotScan(_, _, _, _, _)
PivotScan(h, M, i, r, pivot) ==
    IF r > Len(M) THEN pivot
    ELSE PivotScan(h, M, i, r + 1,
            IF RLess(RAbs(h[M[pivot]][i]), RAbs(h[M[r]][i])) THEN r ELSE pivot)

\* [M[pivot], M[i]] = [M[i], M[pivot]]
SwapRows(M, i, pivot) == [M EXCEPT ![pivot] = M[i], ![i] = M[pivot]]

\* for (j = from; j <= to; j++) row[j] /= div, on the row behind ref
ScaleRow(h, ref, from, to, div) ==
    [h EXCEPT ![ref] =
        [j \in 1..Len(h[ref]) |->
            IF j >= from /\ j <= to THEN RDiv(h[ref][j], div) ELSE h[ref][j]]]

\* for (j = from; j <= to; j++) row[j] -= factor * prow[j]
SubRow(h, ref, pref, from, to, factor) ==
    [h EXCEPT ![ref] =
        [j \in 1..Len(h[ref]) |->
            IF j >= from /\ j <= to
            THEN RSub(h[ref][j], RMul(factor, h[pref][j]))
            ELSE h[ref][j]]]

\* what the scan of column i looked at and chose
TraceStep(h, M, i, pivot) ==
    [cand |-> [r \in i..Len(M) |-> h[M[r]][i]], pivot |-> pivot]

\* determinant: for (r = i + 1; r < n; r++) { factor = M[r][i]; row r -= factor * row i }
RECURSIVE DetElimRows(_, _, _, _)
DetElimRows(h, M, i, r) ==
    IF r > Len(M) THEN h
    ELSE DetElimRows(SubRow(h, M[r], M[i], i, Len(M), h[M[r]][i]), M, i, r + 1)

\* variant: a row swap does not change the sign
DetStepNoSign(s, i) ==
    LET n == Len(s.M)
        pivot == PivotScan(s.h, s.M, i, i, i)
        tr == Append(s.trace, TraceStep(s.h, s.M, i, pivot))
    IN IF BelowEps(s.h[s.M[pivot]][i])
       THEN [s EXCEPT !.trace = tr, !.ret = TRUE]
       ELSE LET M1 == IF pivot # i THEN SwapRows(s.M, i, pivot) ELSE s.M
                div == s.h[M1[i]][i]
                h1 == ScaleRow(s.h, M1[i], i, n, div)
            IN [h |-> DetElimRows(h1, M1, i, i + 1), M |-> M1,
                det |-> RMul(s.det, div), trace |-> tr, ret |-> FALSE]

\* one iteration of determinant's outer loop; ret: the loop hit "return 0"
DetStep(s, i) ==
    LET n == Len(s.M)
        pivot == PivotScan(s.h, s.M, i, i, i)
        tr == Append(s.trace, TraceStep(s.h, s.M, i, pivot))
    IN IF BelowEps(s.h[s.M[pivot]][i])
       THEN [s EXCEPT !.trace = tr, !.ret = TRUE]
       ELSE LET M1 == IF pivot # i THEN SwapRows(s.M, i, pivot) ELSE s.M
                det1 == IF pivot # i THEN RMul(s.det, Num(0 - 1)) ELSE s.det
                div == s.h[M1[i]][i]
                h1 == ScaleRow(s.h, M1[i], i, n, div)
            IN [h |-> DetElimRows(h1, M1, i, i + 1), M |-> M1,
                det |-> RMul(det1, div), trace |-> tr, ret |-> FALSE]

RECURSIVE DetLoop(_, _)
DetLoop(s, i) ==
    IF i > Len(s.M) \/ s.ret THEN s ELSE DetLoop(DetStep(s, i), i + 1)

\* variant: only a matrix with more rows than columns is refused
determinantWide(h, A) ==
    IF Len(A) > Len(h[A[1]])
    THEN [h |-> h, out |-> Fail(NotSquareDetMsg), trace |-> <<>>]
    ELSE LET c == CopyRows(h, A)
             s == DetLoop([h |-> c.h, M |-> c.M, det |-> Num(1),
                           trace |-> <<>>, ret |-> FALSE], 1)
         IN [h |-> s.h, out |-> Return(IF s.ret THEN Num(0) ELSE s.det),
             trace |-> s.trace]

\* determinant(A) on heap h: the heap afterwards, the outcome, the scans made
determinant(h, A) ==
    IF Len(A) # Len(h[A[1]])
    THEN [h |-> h, out |-> Fail(NotSquareDetMsg), trace |-> <<>>]
    ELSE LET c == CopyRows(h, A)
             s == DetLoop([h |-> c.h, M |-> c.M, det |-> Num(1),
                           trace |-> <<>>, ret |-> FALSE], 1)
         IN [h |-> s.h, out |-> Return(IF s.ret THEN Num(0) ELSE s.det),
             trace |-> s.trace]

\* variant: only the rows below the pivot row are reduced
RECURSIVE InvElimRowsBelow(_, _, _, _)
InvElimRowsBelow(h, M, i, r) ==
    IF r > Len(M) THEN h
    ELSE IF r <= i THEN InvElimRowsBelow(h, M, i, r + 1)
    ELSE InvElimRowsBelow(
            SubRow(h, M[r], M[i], 1, 2 * Len(M), h[M[r]][i]), M, i, r + 1)

\* inverse: for (r = 0; r < n; r++) { if (r === i) continue; row r -= factor * row i }
RECURSIVE InvElimRows(_, _, _, _)
InvElimRows(h, M, i, r) ==
    IF r > Len(M) THEN h
    ELSE IF r = i THEN InvElimRows(h, M, i, r + 1)
    ELSE InvElimRows(
            SubRow(h, M[r], M[i], 1, 2 * Len(M), h[M[r]][i]), M, i, r + 1)

\* one iteration of inverse's outer loop; thrown: the loop hit the throw
InvStep(s, i) ==
    LET n == Len(s.M)
        pivot == PivotScan(s.h, s.M, i, i, i)
        tr == Append(s.trace, TraceStep(s.h, s.M, i, pivot))
    IN IF BelowEps(s.h[s.M[pivot]][i])
       THEN [s EXCEPT !.trace = tr, !.thrown = TRUE]
       ELSE LET M1 == IF pivot # i THEN SwapRows(s.M, i, pivot) ELSE s.M
                div == s.h[M1[i]][i]
                h1 == ScaleRow(s.h, M1[i], 1, 2 * n, div)
            IN [h |-> InvElimRows(h1, M1, i, 1), M |-> M1,
                trace |-> tr, thrown |-> FALSE]

RECURSIVE InvLoop(_, _)
InvLoop(s, i) ==
    IF i > Len(s.M) \/ s.thrown THEN s ELSE InvLoop(InvStep(s, i), i + 1)

\* inverse(A) on heap h: the heap afterwards, the outcome (a sequence of
\* references to the rows returned), the scans made
inverse(h, A) ==
    IF Len(A) # Len(h[A[1]])
    THEN [h |-> h, out |-> Fail(NotSquareInvMsg), trace |-> <<>>]
    ELSE LET c == AugmentRows(h, A)
             s == InvLoop([h |-> c.h, M |-> c.M, trace |-> <<>>,
                           thrown |-> FALSE], 1)
         IN IF s.thrown
            THEN [h |-> s.h, out |-> Fail(SingularMsg), trace |-> s.trace]
            ELSE LET res == SliceRows(s.h, s.M, Len(A))
                 IN [h |-> res.h, out |-> Return(res.M), trace |-> s.trace]

\* matrixAdd / matrixMul on the heap: the rows of a result are new arrays
AllocRows(h, rows) == [h |-> h \o rows, M |-> NewRefs(h, Len(rows))]

NumMatrix(V) == [i \in 1..Len(V) |-> [j \in 1..Len(V[i]) |-> V[i][j].num]]
FracMatrix(V) == [i \in 1..Len(V) |-> [j \in 1..Len(V[i]) |-> Num(V[i][j])]]

heapMatrixOp(h, res) ==
    IF res.err # "" THEN [h |-> h, out |-> res]
    ELSE LET a == AllocRows(h, FracMatrix(res.val))
         IN [h |-> a.h, out |-> Return(a.M)]

\* rectangular matrices of small integers, at least 1 x 1
DetMatrices ==
    UNION {[1..r -> [1..c -> (0 - 1)..DetMaxEntry]] : r \in 1..DetMaxN, c \in 1..DetMaxN}

\* the second argument of a two-matrix call: A itself, a separate matrix
\* equal to A, or a separate identity matrix that A can be multiplied by
SecondArgs(h, A) ==
    {[h |-> h, M |-> A],
     AllocRows(h, Deref(h, A)),
     AllocRows(h, FracMatrix(Identity(Len(h[A[1]]))))}

InitDet ==
    /\ \E V \in DetMatrices :
        /\ heap = FracMatrix(V)
        /\ argA = [i \in 1..Len(V) |-> i]
    /\ heap0 = heap
    /\ argB = <<>>
    /\ dcall = "idle" /\ dout = <<>> /\ dtrace = <<>> /\ dchain = <<>>
    /\ GraphIdle /\ BfsIdle /\ ParseIdle /\ MatIdle /\ EvalIdle /\ CalcIdle /\ RestIdle

otherThanDet == <<graphVars, bfsVars, parseVars, matVars, evalVars, calcVars, restVars>>

CallDeterminant ==
    /\ dcall = "idle"
    /\ LET res == determinant(heap, argA) IN
        /\ heap' = res.h
        /\ dout' = res.out
        /\ dtrace' = res.trace
    /\ dcall' = "det"
    /\ UNCHANGED <<heap0, argA, argB, dchain, otherThanDet>>

CallInverse ==
    /\ dcall = "idle"
    /\ LET res == inverse(heap, argA) IN
        /\ heap' = res.h
        /\ dout' = res.out
        /\ dtrace' = res.trace
    /\ dcall' = "inv"
    /\ UNCHANGED <<heap0, argA, argB, dchain, otherThanDet>>

\* determinant(inverse(A)) next to determinant(A), once inverse(A) returned
CallDeterminantOfInverse ==
    /\ dcall = "inv" /\ dout.err = ""
    /\ LET dinv == determinant(heap, dout.val)
           darg == determinant(dinv.h, argA)
       IN /\ heap' = darg.h
          /\ dchain' = [inv |-> dinv.out, arg |-> darg.out]
    /\ dcall' = "detinv"
    /\ UNCHANGED <<heap0, argA, argB, dout, dtrace, otherThanDet>>

CallHeapMatrixAdd ==
    /\ dcall = "idle"
    /\ \E b \in SecondArgs(heap, argA) :
        LET res == heapMatrixOp(b.h, matrixAdd(NumMatrix(Deref(b.h, argA)),
                                               NumMatrix(Deref(b.h, b.M))))
        IN /\ heap0' = b.h
           /\ argB' = b.M
           /\ heap' = res.h
           /\ dout' = res.out
    /\ dcall' = "add"
    /\ UNCHANGED <<argA, dtrace, dchain, otherThanDet>>

CallHeapMatrixMul ==
    /\ dcall = "idle"
    /\ \E b \in SecondArgs(heap, argA) :
        LET res == heapMatrixOp(b.h, matrixMul(NumMatrix(Deref(b.h, argA)),
                                               NumMatrix(Deref(b.h, b.M))))
        IN /\ heap0' = b.h
           /\ argB' = b.M
           /\ heap' = res.h
           /\ dout' = res.out
    /\ dcall' = "mul"
    /\ UNCHANGED <<argA, dtrace, dchain, otherThanDet>>

NextDet ==
    \/ CallDeterminant
    \/ CallInverse
    \/ CallDeterminantOfInverse
    \/ CallHeapMatrixAdd
    \/ CallHeapMatrixMul

SpecDet == InitDet /\ [][NextDet]_vars

----------------------------------------------------------------------------
(* Reference definitions for the determinant and inverse claims *)

\* the argument A as it was passed: a matrix of integers
ArgRows == Len(argA)
ArgCols == Len(heap0[argA[1]])
ArgMatrix == NumMatrix(Deref(heap0, argA))

\* V without its first row and its column j
Minor(V, j) ==
    [r \in 1..(Len(V) - 1) |->
        [c \in 1..(Len(V) - 1) |-> IF c < j THEN V[r + 1][c] ELSE V[r + 1][c + 1]]]

\* the determinant by expansion along the first row
RECURSIVE RefDet(_)
RefDet(V) ==
    IF Len(V) = 1 THEN V[1][1]
    ELSE SetSum(1..Len(V),
            [j \in 1..Len(V) |->
                (IF j % 2 = 1 THEN 1 ELSE 0 - 1) * V[1][j] * RefDet(Minor(V, j))])

\* sum over k = 1..n of X[i][k] * Y[k][j], on fractions
RECURSIVE DotFrom(_, _, _, _, _)
DotFrom(X, Y, i, j, k) ==
    IF k = 0 THEN Num(0)
    ELSE RAdd(DotFrom(X, Y, i, j, k - 1), RMul(X[i][k], Y[k][j]))

\* the largest absolute value among the candidates of one scan
MaxAbs(cand) ==
    CHOOSE v \in {RAbs(cand[r]) : r \in DOMAIN cand} :
        \A r \in DOMAIN cand : ~RLess(v, RAbs(cand[r]))

\* the product of the pivots of the first k scans, negated once per swap
RECURSIVE PivotProduct(_, _)
PivotProduct(tr, k) ==
    IF k = 0 THEN Num(1)
    ELSE RMul(PivotProduct(tr, k - 1),
              RMul(tr[k].cand[tr[k].pivot],
                   IF tr[k].pivot # k THEN Num(0 - 1) ELSE Num(1)))

\* every scan made looked at rows k..n of column k and chose a largest one
ScansChooseLargest ==
    \A k \in 1..Len(dtrace) :
        /\ DOMAIN dtrace[k].cand = k..ArgRows
        /\ dtrace[k].pivot \in k..ArgRows
        /\ RAbs(dtrace[k].cand[dtrace[k].pivot]) = MaxAbs(dtrace[k].cand)

\* the scans whose largest candidate is below 1e-12
SingularScans == {k \in 1..Len(dtrace) : BelowEps(MaxAbs(dtrace[k].cand))}

\* C11: on a matrix whose row and column counts differ, determinant and
\* inverse fail with their not-square error: no value is returned, no
\* column has been scanned and no row has been allocated or written.
NotSquareFails ==
    (dcall \in {"det", "inv"} /\ ArgRows # ArgCols) =>
        /\ dout = Fail(IF dcall = "det" THEN NotSquareDetMsg ELSE NotSquareInvMsg)
        /\ dtrace = <<>>
        /\ heap = heap0

NotSquareFailsWitness ==
    /\ dcall = "inv"
    /\ ArgRows = 2 /\ ArgCols = 3
    /\ dout.err = NotSquareInvMsg

\* C12: on a square matrix determinant scans column after column for a
\* pivot of largest absolute value at or below the current row, returns 0
\* at the first scan whose pivot is below 1e-12, and otherwise the product
\* of the pivots negated once per row swap, which is the determinant of A.
DeterminantByPivoting ==
    (dcall = "det" /\ ArgRows = ArgCols) =>
        /\ dout.err = ""
        /\ ScansChooseLargest
        /\ IF SingularScans # {}
           THEN SingularScans = {Len(dtrace)} /\ dout.val = Num(0)
           ELSE /\ Len(dtrace) = ArgRows
                /\ dout.val = PivotProduct(dtrace, Len(dtrace))
        /\ dout.val = Num(RefDet(ArgMatrix))

DeterminantByPivotingWitness ==
    /\ dcall = "det"
    /\ ArgRows = 3 /\ ArgCols = 3
    /\ Len(dtrace) = 3
    /\ dtrace[1].pivot = 1 /\ dtrace[2].pivot = 3
    /\ dtrace[3].cand[3].den > 1
    /\ dout.val.num < 0

\* C13: on a square matrix inverse fails with the singular-matrix error,
\* returning nothing, exactly when some scan's largest candidate is below
\* 1e-12 (which happens exactly when the determinant of A is 0); otherwise
\* it returns an n x n matrix B with A * B the identity.
InverseOrSingular ==
    (dcall = "inv" /\ ArgRows = ArgCols) =>
        /\ ScansChooseLargest
        /\ (dout.err = SingularMsg) <=> (SingularScans # {})
        /\ (dout.err = SingularMsg) <=> (RefDet(ArgMatrix) = 0)
        /\ dout.err = SingularMsg => dout.val = <<>>
        /\ dout.err # SingularMsg =>
            /\ dout.err = ""
            /\ Len(dtrace) = ArgRows
            /\ LET B == Deref(heap, dout.val)
                   A == Deref(heap0, argA)
               IN /\ Len(B) = ArgRows
                  /\ \A i \in 1..ArgRows : Len(B[i]) = ArgRows
                  /\ \A i, j \in 1..ArgRows :
                        DotFrom(A, B, i, j, ArgRows) = Num(IF i = j THEN 1 ELSE 0)

InverseOrSingularWitness ==
    /\ dcall = "inv"
    /\ ArgRows = 3 /\ ArgCols = 3
    /\ dout.err = ""
    /\ \E k \in 1..3 : dtrace[k].pivot # k
    /\ \E i, j \in 1..3 : heap[dout.val[i]][j].den > 1

\* C14: for a square non-singular A, determinant(inverse(A)) times
\* determinant(A) is exactly 1.
DetOfInverseIsReciprocal ==
    dcall = "detinv" =>
        /\ dchain.inv.err = "" /\ dchain.arg.err = ""
        /\ dchain.arg.val # Num(0)
        /\ dchain.inv.val = RDiv(Num(1), dchain.arg.val)

DetOfInverseWitness ==
    /\ dcall = "detinv"
    /\ ArgRows = 3
    /\ dchain.arg.val = Num(0 - 3)
    /\ dchain.inv.val = Frac(0 - 1, 3)

\* C15: after any call of matrixAdd, matrixMul, determinant or inverse every
\* row that existed when the call was made holds what it held then, and a
\* matrix returned is made of rows that belong to no argument.
ArgumentsUntouched ==
    dcall # "idle" =>
        /\ Len(heap) >= Len(heap0)
        /\ \A ref \in 1..Len(heap0) : heap[ref] = heap0[ref]
        /\ (dcall \in {"inv", "detinv", "add", "mul"} /\ dout.err = "") =>
            Range(dout.val) \cap (Range(argA) \cup Range(argB)) = {}

ArgumentsUntouchedWitness ==
    /\ dcall = "det"
    /\ ArgRows = 3 /\ ArgCols = 3
    /\ Len(dtrace) = 3
    /\ \E k \in 1..3 : dtrace[k].pivot # k
    /\ Len(heap) = 6
    /\ \A ref \in 1..3 : heap[ref] = heap0[ref]
    /\ \E ref \in 1..3 : heap[ref + 3] # heap0[ref]

----------------------------------------------------------------------------
(* friendlyMathError, evaluateExpression.  A message is the sequence of its *)
(* words, a punctuation mark being a word of its own.                       *)

MaxPhrases == 2    \* an engine message is made of at most this many phrases
MaxExprLen == 2    \* characters in an expression

FunctionMsg ==
    <<"Invalid", "function", "name", ".", "Check", "function", "spelling",
      "like", "sin", ",", "cos", ",", "log", ",", "sqrt", ".">>
VariableMsg ==
    <<"Missing", "variable", "value", ".", "Define", "all", "variables",
      "before", "evaluating", ".">>
SyntaxMsg ==
    <<"Invalid", "expression", "syntax", ".", "Check", "parentheses", "and",
      "operators", ".">>
DivZeroMsg ==
    <<"Division", "by", "zero", "is", "not", "allowed", "in", "this",
      "expression", ".">>
FallbackMsg ==
    <<"Could", "not", "evaluate", "expression", ".", "Please", "check", "your",
      "math", "input", ".">>
UnknownErrorMsg == <<"Unknown", "error">>
EmptyExprMsg == <<"Please", "enter", "an", "expression", ".">>
DivisionByZero == <<"Division", "by", "zero">>

\* toLowerCase on one word
LowerWord(w) ==
    CASE w = "Undefined" -> "undefined"
      [] w = "Unexpected" -> "unexpected"
      [] w = "Parenthesis" -> "parenthesis"
      [] w = "Division" -> "division"
      [] w = "Infinity" -> "infinity"
      [] w = "Cannot" -> "cannot"
      [] w = "Value" -> "value"
      [] w = "Unknown" -> "unknown"
      [] w = "Invalid" -> "invalid"
      [] w = "Missing" -> "missing"
      [] w = "Check" -> "check"
      [] w = "Define" -> "define"
      [] w = "Could" -> "could"
      [] w = "Please" -> "please"
      [] w = "Matrix" -> "matrix"
      [] w = "Empty" -> "empty"
      [] w = "All" -> "all"
      [] w = "A" -> "a"
      [] w = "B" -> "b"
      [] w = "Determinant" -> "determinant"
      [] w = "Inverse" -> "inverse"
      [] w = "Derivative" -> "derivative"
      [] w = "Integral" -> "integral"
      [] OTHER -> w

ToLowerCase(msg) == [i \in 1..Len(msg) |-> LowerWord(msg[i])]

\* variant: one word of p occurring in s is enough
IncludesAnyWord(s, p) ==
    \E i \in 1..Len(s) : \E j \in 1..Len(p) : s[i] = p[j]

\* s.includes(p)
Includes(s, p) ==
    \E i \in 0..(Len(s) - Len(p)) : SubSeq(s, i + 1, i + Len(p)) = p

\* a thrown value: an Error with a message, a string, or null
\* error instanceof Error ? error.message : String(error ?? "Unknown error")
MessageOf(error) ==
    IF error.type = "Error" THEN error.message
    ELSE IF error.type = "null" THEN UnknownErrorMsg
    ELSE error.message

\* variant: the variable test comes before the function test
friendlyMathErrorVariableFirst(error) ==
    LET msg == MessageOf(error)
        lower == ToLowerCase(msg)
    IN IF Includes(lower, <<"undefined", "symbol">>)
          \/ Includes(lower, <<"undefined", "variable">>)
       THEN VariableMsg
       ELSE IF Includes(lower, <<"undefined", "function">>)
          \/ Includes(lower, <<"is", "not", "a", "function">>)
       THEN FunctionMsg
       ELSE IF Includes(lower, <<"parenthesis">>)
          \/ Includes(lower, <<"unexpected", "end", "of", "expression">>)
          \/ Includes(lower, <<"unexpected", "part">>)
       THEN SyntaxMsg
       ELSE IF Includes(lower, <<"division", "by", "zero">>)
          \/ Includes(lower, <<"infinity">>)
          \/ Includes(lower, <<"cannot", "divide">>)
       THEN DivZeroMsg
       ELSE IF msg # <<>> THEN msg ELSE FallbackMsg

friendlyMathError(error) ==
    LET msg == MessageOf(error)
        lower == ToLowerCase(msg)
    IN IF Includes(lower, <<"undefined", "function">>)
          \/ Includes(lower, <<"is", "not", "a", "function">>)
       THEN FunctionMsg
       ELSE IF Includes(lower, <<"undefined", "symbol">>)
          \/ Includes(lower, <<"undefined", "variable">>)
       THEN VariableMsg
       ELSE IF Includes(lower, <<"parenthesis">>)
          \/ Includes(lower, <<"unexpected", "end", "of", "expression">>)
          \/ Includes(lower, <<"unexpected", "part">>)
       THEN SyntaxMsg
       ELSE IF Includes(lower, <<"division", "by", "zero">>)
          \/ Includes(lower, <<"infinity">>)
          \/ Includes(lower, <<"cannot", "divide">>)
       THEN DivZeroMsg
       ELSE IF msg # <<>> THEN msg ELSE FallbackMsg

\* JavaScript numbers: a fraction, or one of the three non-finite values,
\* written with denominator 0
PosInfinity == [num |-> 1, den |-> 0]
NegInfinity == [num |-> 0 - 1, den |-> 0]
NaN == [num |-> 0, den |-> 0]
NumberIsFinite(v) == v.den # 0

\* the characters U+00D7, U+00F7 and U+2212
TimesSign == "U+00D7"
DivideSign == "U+00F7"
MinusSign == "U+2212"

\* s.replace(/c/g, by)
ReplaceAll(s, c, by) == [i \in 1..Len(s) |-> IF s[i] = c THEN by ELSE s[i]]

\* variant: the expression is not trimmed
CleanNoTrim(e) ==
    ReplaceAll(ReplaceAll(ReplaceAll(e, TimesSign, "*"), DivideSign, "/"),
               MinusSign, "-")

Clean(e) ==
    Trim(ReplaceAll(ReplaceAll(ReplaceAll(e, TimesSign, "*"), DivideSign, "/"),
                    MinusSign, "-"))

\* outcomes of evaluateExpression; invoked: math.evaluate was called,
\* friendly: the error went through friendlyMathError
Thrown(msg, invoked, friendly) ==
    [ok |-> FALSE, msg |-> msg, val |-> <<>>, invoked |-> invoked,
     friendly |-> friendly]
Returned(v) ==
    [ok |-> TRUE, msg |-> <<>>, val |-> v, invoked |-> TRUE, friendly |-> FALSE]

ErrorOf(msg) == [type |-> "Error", message |-> msg]

\* variant: only Infinity itself is refused
evaluateExpressionInfinityOnly(e, eng) ==
    LET cleaned == Clean(e) IN
    IF cleaned = <<>> THEN Thrown(EmptyExprMsg, FALSE, FALSE)
    ELSE IF eng.kind = "throw"
    THEN Thrown(friendlyMathError(eng.error), TRUE, TRUE)
    ELSE IF eng.value.type = "number" /\ eng.value.v = PosInfinity
    THEN Thrown(friendlyMathError(ErrorOf(DivisionByZero)), TRUE, TRUE)
    ELSE Returned(eng.value)

\* evaluateExpression(expr, scope), eng being what math.evaluate(cleaned, scope)
\* does: [kind |-> "return", value |-> v] or [kind |-> "throw", error |-> e]
evaluateExpression(e, eng) ==
    LET cleaned == Clean(e) IN
    IF cleaned = <<>> THEN Thrown(EmptyExprMsg, FALSE, FALSE)
    ELSE IF eng.kind = "throw"
    THEN Thrown(friendlyMathError(eng.error), TRUE, TRUE)
    ELSE IF eng.value.type = "number" /\ ~NumberIsFinite(eng.value.v)
    THEN Thrown(friendlyMathError(ErrorOf(DivisionByZero)), TRUE, TRUE)
    ELSE Returned(eng.value)

\* --- inputs ---
ExprChars == {"1", "+", " ", "\n", TimesSign, DivideSign, MinusSign}

Exprs == UNION {[1..n -> ExprChars] : n \in 0..MaxExprLen}

Phrases ==
    {<<"Undefined", "function", "foo">>,
     <<"foo", "is", "not", "a", "function">>,
     <<"Undefined", "symbol", "x">>,
     <<"undefined", "variable", "x">>,
     <<"Parenthesis", ")", "expected">>,
     <<"Unexpected", "end", "of", "expression">>,
     <<"Unexpected", "part", "2">>,
     <<"Division", "by", "zero">>,
     <<"Infinity">>,
     <<"Cannot", "divide">>,
     <<"Value", "expected">>,
     <<"Unexpected", "type", "of", "argument">>}

RECURSIVE Flatten(_)
Flatten(ps) == IF ps = <<>> THEN <<>> ELSE Head(ps) \o Flatten(Tail(ps))

EngineMessages ==
    UNION {{Flatten(ps) : ps \in [1..n -> Phrases]} : n \in 0..MaxPhrases}

EngineErrors ==
    {[type |-> t, message |-> m] : t \in {"Error", "string"}, m \in EngineMessages}
        \cup {[type |-> "null", message |-> <<>>]}

EngineValues ==
    {[type |-> "number", v |-> x] :
        x \in {Num(0), Num(5), Frac(1, 2), PosInfinity, NegInfinity, NaN}}
    \cup {[type |-> "object", v |-> x] : x \in {Num(5), PosInfinity, NaN}}

EngineOutcomes ==
    {[kind |-> "return", value |-> v, error |-> <<>>] : v \in EngineValues}
        \cup {[kind |-> "throw", value |-> <<>>, error |-> e] : e \in EngineErrors}

InitEval ==
    /\ expr \in Exprs
    /\ engine = <<>> /\ ecall = "idle" /\ eout = <<>>
    /\ GraphIdle /\ BfsIdle /\ ParseIdle /\ MatIdle /\ DetIdle /\ CalcIdle /\ RestIdle

CallEvaluateExpression ==
    /\ ecall = "idle"
    /\ \E eng \in EngineOutcomes :
        /\ engine' = eng
        /\ eout' = evaluateExpression(expr, eng)
    /\ ecall' = "done"
    /\ UNCHANGED <<expr, graphVars, bfsVars, parseVars, matVars, detVars, calcVars, restVars>>

NextEval == CallEvaluateExpression

SpecEval == InitEval /\ [][NextEval]_vars

\* --- claims about evaluateExpression ---

\* empty, or made of white space only
AllBlank(e) == \A i \in 1..Len(e) : e[i] \in Whitespace

\* C16: an expression that is empty or all white space fails with the
\* empty-expression error, math.evaluate is not called and the error does
\* not go through friendlyMathError; any other expression reaches the engine.
EmptyExpressionFails ==
    ecall = "done" =>
        IF AllBlank(expr)
        THEN /\ ~eout.ok
             /\ eout.msg = EmptyExprMsg
             /\ ~eout.invoked /\ ~eout.friendly
        ELSE eout.invoked

EmptyExpressionWitness ==
    /\ ecall = "done"
    /\ expr = <<" ", "\n">>
    /\ engine.kind = "return"
    /\ eout.msg = EmptyExprMsg

\* C17: a value returned by evaluateExpression is never a non-finite number;
\* when the engine's result is the number Infinity, -Infinity or NaN the call
\* fails with the division-by-zero message.
NeverReturnsNonFinite ==
    ecall = "done" =>
        /\ eout.ok => ~(eout.val.type = "number" /\ eout.val.v \in {PosInfinity, NegInfinity, NaN})
        /\ (eout.invoked /\ engine.kind = "return" /\ engine.value.type = "number"
                /\ engine.value.v \in {PosInfinity, NegInfinity, NaN}) =>
            (~eout.ok /\ eout.msg = DivZeroMsg)

NeverReturnsNonFiniteWitness ==
    /\ ecall = "done"
    /\ expr = <<"1", DivideSign>>
    /\ engine.kind = "return" /\ engine.value.type = "number"
    /\ engine.value.v = NegInfinity
    /\ eout.msg = DivZeroMsg

\* the four categories in the order they are tried
CategoryPatterns ==
    <<{<<"undefined", "function">>, <<"is", "not", "a", "function">>},
      {<<"undefined", "symbol">>, <<"undefined", "variable">>},
      {<<"parenthesis">>, <<"unexpected", "end", "of", "expression">>,
       <<"unexpected", "part">>},
      {<<"division", "by", "zero">>, <<"infinity">>, <<"cannot", "divide">>}>>
CategoryMessages == <<FunctionMsg, VariableMsg, SyntaxMsg, DivZeroMsg>>

\* the categories one of whose patterns occurs in the lower-cased message
Matching(msg) ==
    {k \in 1..4 : \E p \in CategoryPatterns[k] : Includes(ToLowerCase(msg), p)}

EngineThrew == ecall = "done" /\ eout.invoked /\ engine.kind = "throw"

\* C18 as stated: an engine exception is rethrown with the message of the
\* first matching category, or with the raw message when none matches.
RethrownRawWhenUnmatched ==
    EngineThrew =>
        /\ ~eout.ok /\ eout.friendly
        /\ LET raw == MessageOf(engine.error) IN
           eout.msg = IF Matching(raw) # {}
                      THEN CategoryMessages[SetMin(Matching(raw))]
                      ELSE raw

\* C18, amended: an engine exception is rethrown with the message of the
\* first matching category; when none matches, with the raw message if it
\* is not empty and with the generic could-not-evaluate message if it is.
RethrownFriendly ==
    EngineThrew =>
        /\ ~eout.ok /\ eout.friendly
        /\ LET raw == MessageOf(engine.error) IN
           eout.msg = IF Matching(raw) # {}
                      THEN CategoryMessages[SetMin(Matching(raw))]
                      ELSE IF raw # <<>> THEN raw ELSE FallbackMsg

RethrownFriendlyWitness ==
    /\ EngineThrew
    /\ engine.error.type = "Error"
    /\ engine.error.message =
        <<"Undefined", "symbol", "x", "Undefined", "function", "foo">>
    /\ eout.msg = FunctionMsg

----------------------------------------------------------------------------
(* numericDerivative, numericIntegral *)

MaxSub == 4        \* largest n passed to numericIntegral, the default aside
MaxPoint == 2      \* x, a and b are at most this

DefaultN == 200
DerivUndefinedMsg ==
    <<"Derivative", "is", "undefined", "at", "this", "point", ".">>
IntegralUndefinedMsg ==
    <<"Integral", "failed", "because", "function", "is", "undefined", "on",
      "part", "of", "the", "interval", ".">>

\* arithmetic of JavaScript numbers
Sign(v) == IF v.num < 0 THEN 0 - 1 ELSE 1
Inf(s) == IF s < 0 THEN NegInfinity ELSE PosInfinity

JAdd(a, b) ==
    IF a = NaN \/ b = NaN THEN NaN
    ELSE IF a.den = 0 /\ b.den = 0 THEN (IF a = b THEN a ELSE NaN)
    ELSE IF a.den = 0 THEN a
    ELSE IF b.den = 0 THEN b
    ELSE RAdd(a, b)

JMul(a, b) ==
    IF a = NaN \/ b = NaN THEN NaN
    ELSE IF a.den = 0 \/ b.den = 0
    THEN (IF a.num = 0 \/ b.num = 0 THEN NaN ELSE Inf(Sign(a) * Sign(b)))
    ELSE RMul(a, b)

JSub(a, b) == JAdd(a, JMul(Num(0 - 1), b))

JDiv(a, b) ==
    IF a = NaN \/ b = NaN THEN NaN
    ELSE IF a.den = 0 THEN (IF b.den = 0 THEN NaN ELSE Inf(Sign(a) * Sign(b)))
    ELSE IF b.den = 0 THEN Num(0)
    ELSE IF b.num = 0 THEN (IF a.num = 0 THEN NaN ELSE Inf(Sign(a)))
    ELSE RDiv(a, b)

\* Number(v) on a value of the engine
ToNumber(value) == value.v

EngineReturn(type, v) ==
    [kind |-> "return", value |-> [type |-> type, v |-> v], error |-> <<>>]
EngineThrow(msg) ==
    [kind |-> "throw", value |-> <<>>, error |-> ErrorOf(msg)]

\* math.evaluate(cleaned, {x}) on the expressions used below
MathEvaluate(cleaned, x) ==
    CASE cleaned = <<"1">> -> EngineReturn("number", Num(1))
      [] cleaned = <<"2">> -> EngineReturn("number", Num(2))
      [] cleaned = <<"x">> -> EngineReturn("number", x)
      [] cleaned = <<"x", "*", "x">> -> EngineReturn("number", JMul(x, x))
      [] cleaned = <<"1", "/", "x">> -> EngineReturn("number", JDiv(Num(1), x))
      [] cleaned = <<"0", "/", "x">> -> EngineReturn("number", JDiv(Num(0), x))
      [] cleaned = <<"[", "x", "]">> -> EngineReturn("object", NaN)
      [] cleaned = <<"x", "?", "1", ":", "'a'">> ->
            IF x = Num(0) THEN EngineReturn("string", NaN)
            ELSE EngineReturn("number", Num(1))
      [] cleaned = <<"y">> -> EngineThrow(<<"Undefined", "symbol", "y">>)
      [] OTHER -> EngineReturn("object", NaN)

\* outcomes of the numeric functions
CThrow(msg) == [ok |-> FALSE, msg |-> msg, val |-> NaN]
CReturn(v) == [ok |-> TRUE, msg |-> <<>>, val |-> v]

\* Number(evaluateExpression(expr, {x})): an outcome holding a number
Sample(e, x) ==
    LET r == evaluateExpression(e, MathEvaluate(Clean(e), x)) IN
    IF r.ok THEN CReturn(ToNumber(r.val)) ELSE CThrow(r.msg)

numericDerivative(e, x, h) ==
    LET f1 == Sample(e, JAdd(x, h)) IN
    IF ~f1.ok THEN f1
    ELSE LET f0 == Sample(e, JSub(x, h)) IN
         IF ~f0.ok THEN f0
         ELSE LET out == JDiv(JSub(f1.val, f0.val), JMul(Num(2), h)) IN
              IF ~NumberIsFinite(out) THEN CThrow(DerivUndefinedMsg)
              ELSE CReturn(out)

\* variant: n is used as it is
SubintervalsAsGiven(n) == n

\* const N = n % 2 === 0 ? n : n + 1
Subintervals(n) == IF n % 2 = 0 THEN n ELSE n + 1

\* one iteration of numericIntegral's loop on the outcome so far
IntegralStep(e, a, h, i, sum) ==
    LET fx == Sample(e, JAdd(a, JMul(Num(i), h))) IN
    IF ~fx.ok THEN fx
    ELSE IF ~NumberIsFinite(fx.val) THEN CThrow(IntegralUndefinedMsg)
    ELSE CReturn(JAdd(sum.val, JMul(Num(IF i % 2 = 0 THEN 2 ELSE 4), fx.val)))

\* the iterations i = lo..hi of the loop, in order, stopping at a throw
\* (the range is run as its lower half followed by its upper half)
RECURSIVE IntegralLoop(_, _, _, _, _, _)
IntegralLoop(e, a, h, lo, hi, sum) ==
    IF ~sum.ok \/ lo > hi THEN sum
    ELSE IF lo = hi THEN IntegralStep(e, a, h, lo, sum)
    ELSE LET mid == (lo + hi) \div 2 IN
         IntegralLoop(e, a, h, mid + 1, hi, IntegralLoop(e, a, h, lo, mid, sum))

numericIntegral(e, a, b, n) ==
    LET N == Subintervals(n)
        h == JDiv(JSub(b, a), Num(N))
        fa == Sample(e, a)
    IN IF ~fa.ok THEN fa
       ELSE LET fb == Sample(e, b) IN
            IF ~fb.ok THEN fb
            ELSE LET s == IntegralLoop(e, a, h, 1, N - 1, CReturn(JAdd(fa.val, fb.val)))
                 IN IF ~s.ok THEN s
                    ELSE CReturn(JMul(JDiv(h, Num(3)), s.val))

\* --- inputs ---
CalcExprs ==
    {<<"1">>, <<"2">>, <<"x">>, <<"x", "*", "x">>, <<"1", "/", "x">>,
     <<"1", DivideSign, "x">>, <<"0", "/", "x">>, <<"[", "x", "]">>, <<"y">>,
     <<" ">>, <<"x", "?", "1", ":", "'a'">>}

Points == {Num(k) : k \in (0 - 1)..MaxPoint}
Steps == {Frac(1, 2), Num(1)}

DerivArgs ==
    {[op |-> "deriv", e |-> e, x |-> x, h |-> h, a |-> Num(0), b |-> Num(0), n |-> 0] :
        e \in CalcExprs, x \in Points, h \in Steps}

IntegArgs ==
    {[op |-> "integ", e |-> e, x |-> Num(0), h |-> Num(0), a |-> a, b |-> b, n |-> n] :
        e \in CalcExprs, a \in Points, b \in Points, n \in 0..MaxSub}

\* numericIntegral("1", 0, 5) with the default n
ExampleIntegral ==
    [op |-> "integ", e |-> <<"1">>, x |-> Num(0), h |-> Num(0),
     a |-> Num(0), b |-> Num(5), n |-> DefaultN]

InitCalc ==
    /\ cargs \in DerivArgs \cup IntegArgs \cup {ExampleIntegral}
    /\ ccall = "idle" /\ cout = <<>>
    /\ GraphIdle /\ BfsIdle /\ ParseIdle /\ MatIdle /\ DetIdle /\ EvalIdle /\ RestIdle

CallNumericDerivative ==
    /\ ccall = "idle" /\ cargs.op = "deriv"
    /\ ccall' = "deriv"
    /\ cout' = numericDerivative(cargs.e, cargs.x, cargs.h)
    /\ UNCHANGED <<cargs, graphVars, bfsVars, parseVars, matVars, detVars, evalVars, restVars>>

CallNumericIntegral ==
    /\ ccall = "idle" /\ cargs.op = "integ"
    /\ ccall' = "integ"
    /\ cout' = numericIntegral(cargs.e, cargs.a, cargs.b, cargs.n)
    /\ UNCHANGED <<cargs, graphVars, bfsVars, parseVars, matVars, detVars, evalVars, restVars>>

NextCalc == CallNumericDerivative \/ CallNumericIntegral

SpecCalc == InitCalc /\ [][NextCalc]_vars

\* --- claims ---

\* the engine's result at x is a number, finite or not
EngineGivesNumber(e, x) ==
    /\ ~AllBlank(e)
    /\ MathEvaluate(Clean(e), x).kind = "return"
    /\ MathEvaluate(Clean(e), x).value.type = "number"

\* C19 as stated: numericDerivative returns a finite number or fails with
\* the undefined-derivative error, also when the function's value at x + h
\* or at x - h is not finite.
DerivativeFiniteOrUndefined ==
    (/\ ccall = "deriv"
     /\ EngineGivesNumber(cargs.e, JAdd(cargs.x, cargs.h))
     /\ EngineGivesNumber(cargs.e, JSub(cargs.x, cargs.h))) =>
        \/ cout.ok /\ NumberIsFinite(cout.val)
        \/ ~cout.ok /\ cout.msg = DerivUndefinedMsg

\* the weight of sample i among 0..N
Weight(i, N) == IF i = 0 \/ i = N THEN 1 ELSE IF i % 2 = 1 THEN 4 ELSE 2

\* the function the expression stands for, where it is a finite number
ValueAt(e, x) == MathEvaluate(Clean(e), x).value.v

Defined(e, x) == EngineGivesNumber(e, x) /\ NumberIsFinite(ValueAt(e, x))

\* sum over i = lo..hi of Weight(i, N) * f(a + i * (b - a) / N)
RECURSIVE WeightedSum(_, _, _, _, _, _)
WeightedSum(e, a, b, N, lo, hi) ==
    IF lo = hi
    THEN RMul(Num(Weight(lo, N)),
              ValueAt(e, RAdd(a, RDiv(RMul(Num(lo), RSub(b, a)), Num(N)))))
    ELSE LET mid == (lo + hi) \div 2 IN
         RAdd(WeightedSum(e, a, b, N, lo, mid), WeightedSum(e, a, b, N, mid + 1, hi))

\* the smallest even number that is at least n
EvenAtLeast(n) == CHOOSE m \in n..(n + 1) : m % 2 = 0

\* C20: for n >= 1 numericIntegral samples the integrand at the N + 1 points
\* of N equal subintervals, N the smallest even number >= n, and returns
\* (h / 3) times the sum weighted 1, 4, 2, ..., 4, 1; so a constant c gives
\* c * (b - a) (and x and x * x their exact integrals), and
\* numericIntegral("1", 0, 5) is 5.
SimpsonRule ==
    (ccall = "integ" /\ cargs.n >= 1) =>
        LET e == cargs.e
            a == cargs.a
            b == cargs.b
            N == EvenAtLeast(cargs.n)
            width == RSub(b, a)
        IN /\ (\A i \in 0..N : Defined(e, RAdd(a, RDiv(RMul(Num(i), width), Num(N))))) =>
               /\ cout.ok
               /\ cout.val = RMul(RDiv(width, Num(3 * N)), WeightedSum(e, a, b, N, 0, N))
               /\ e = <<"1">> => cout.val = width
               /\ e = <<"2">> => cout.val = RMul(Num(2), width)
               /\ e = <<"x">> =>
                    cout.val = RDiv(RSub(RMul(b, b), RMul(a, a)), Num(2))
               /\ e = <<"x", "*", "x">> =>
                    cout.val = RDiv(RSub(RMul(b, RMul(b, b)), RMul(a, RMul(a, a))), Num(3))
           /\ cargs = ExampleIntegral => cout = CReturn(Num(5))

SimpsonRuleWitness ==
    /\ ccall = "integ"
    /\ cargs.e = <<"2">>
    /\ cargs.a = Num(0 - 1) /\ cargs.b = Num(2)
    /\ cargs.n = 3
    /\ cout = CReturn(Num(6))

\* the engine returns at x something whose Number() is NaN or infinite
SampleNonFinite(e, x) ==
    /\ ~AllBlank(e)
    /\ MathEvaluate(Clean(e), x).kind = "return"
    /\ ~NumberIsFinite(ToNumber(MathEvaluate(Clean(e), x).value))

\* the i-th sample point of N subintervals of [a, b]
PointAt(a, b, N, i) == RAdd(a, RDiv(RMul(Num(i), RSub(b, a)), Num(N)))

\* C21 as stated: for n >= 1 numericIntegral returns a finite number or
\* fails; when the first sample that is not a finite number is an interior
\* one, the failure is the undefined-integral error.
IntegralFiniteOrUndefined ==
    (ccall = "integ" /\ cargs.n >= 1) =>
        LET e == cargs.e
            a == cargs.a
            b == cargs.b
            N == EvenAtLeast(cargs.n)
        IN /\ cout.ok => NumberIsFinite(cout.val)
           /\ (/\ Defined(e, a) /\ Defined(e, b)
               /\ \E i \in 1..(N - 1) :
                    /\ SampleNonFinite(e, PointAt(a, b, N, i))
                    /\ \A j \in 1..(i - 1) : Defined(e, PointAt(a, b, N, j))) =>
                (~cout.ok /\ cout.msg = IntegralUndefinedMsg)

----------------------------------------------------------------------------
(* GraphTheoryPage: addNode, addEdge, resetExample and the d3 drawing *)

MaxEdNodes == 5    \* addNode is tried while there are fewer nodes than this
MaxEdLinks == 5    \* addEdge is tried while there are fewer links than this

\* String(n) for n >= 0
DigitChar(d) == CHOOSE c \in Digits : DigitVal(c) = d

RECURSIVE StringOf(_)
StringOf(n) ==
    IF n < 10 THEN <<DigitChar(n)>>
    ELSE StringOf(n \div 10) \o <<DigitChar(n % 10)>>

\* an end of a link: the id it was created with, or (ref) the node object
\* that d3 put in its place
IdEnd(id) == [ref |-> FALSE, id |-> id]
NodeEnd(id) == [ref |-> TRUE, id |-> id]
Link(s, t) == [source |-> IdEnd(s), target |-> IdEnd(t)]

\* e.source === s, s a string
SameString(end, s) == ~end.ref /\ end.id = s

\* d3.forceLink(links) on initialisation: an end that is not an object is
\* replaced by the node with that id
DrawLinks(ls) ==
    [i \in 1..Len(ls) |->
        [source |-> NodeEnd(ls[i].source.id), target |-> NodeEnd(ls[i].target.id)]]

\* the drawing effect, run when nodes or links have changed
Draw(ls) == DrawLinks(ls)

ExampleNodes == <<[id |-> <<"1">>], [id |-> <<"2">>], [id |-> <<"3">>], [id |-> <<"4">>]>>
ExampleLinks ==
    <<Link(<<"1">>, <<"2">>), Link(<<"2">>, <<"3">>), Link(<<"3">>, <<"4">>)>>

HasNode(ns, id) == \E i \in 1..Len(ns) : ns[i].id = id

\* --- inputs: what the user types into the three fields ---
FieldTexts ==
    {<<>>, <<" ">>, <<"1">>, <<"2">>, <<" ", "2">>, <<"5">>, <<"a">>}


otherThanEdit ==
    <<graphVars, bfsVars, parseVars, matVars, detVars, evalVars, calcVars,
      projVars, histVars, pageVars, openVars>>

InitEdit ==
    /\ ednodes = ExampleNodes
    /\ edlinks = Draw(ExampleLinks)
    /\ newNodeId = <<"5">> /\ src = <<"1">> /\ dst = <<"2">>
    /\ status = "" /\ edlast = <<>>
    /\ GraphIdle /\ BfsIdle /\ ParseIdle /\ MatIdle /\ DetIdle /\ EvalIdle /\ CalcIdle
    /\ ProjIdle /\ HistIdle /\ PageIdle /\ OpenIdle

SetNewNodeId ==
    /\ \E t \in FieldTexts : newNodeId' = t
    /\ edlast' = [op |-> "type", rejected |-> FALSE]
    /\ UNCHANGED <<ednodes, edlinks, src, dst, status, otherThanEdit>>

SetSrc ==
    /\ \E t \in FieldTexts : src' = t
    /\ edlast' = [op |-> "type", rejected |-> FALSE]
    /\ UNCHANGED <<ednodes, edlinks, newNodeId, dst, status, otherThanEdit>>

SetDst ==
    /\ \E t \in FieldTexts : dst' = t
    /\ edlast' = [op |-> "type", rejected |-> FALSE]
    /\ UNCHANGED <<ednodes, edlinks, newNodeId, src, status, otherThanEdit>>

addNode ==
    /\ Len(ednodes) < MaxEdNodes
    /\ LET id == Trim(newNodeId) IN
       IF id = <<>>
       THEN /\ edlast' = [op |-> "addNode", rejected |-> TRUE]
            /\ UNCHANGED <<ednodes, edlinks, newNodeId, status>>
       ELSE IF HasNode(ednodes, id)
       THEN /\ status' = "Node already exists."
            /\ edlast' = [op |-> "addNode", rejected |-> TRUE]
            /\ UNCHANGED <<ednodes, edlinks, newNodeId>>
       ELSE /\ ednodes' = Append(ednodes, [id |-> id])
            /\ newNodeId' = StringOf(IF NumberOf(id).finite THEN NumberOf(id).v + 1
                                     ELSE Len(ednodes) + 1)
            /\ status' = ""
            /\ edlinks' = Draw(edlinks)
            /\ edlast' = [op |-> "addNode", rejected |-> FALSE]
    /\ UNCHANGED <<src, dst, otherThanEdit>>

addEdge ==
    /\ Len(edlinks) < MaxEdLinks
    /\ LET s == Trim(src)
           t == Trim(dst)
       IN IF s = <<>> \/ t = <<>>
          THEN /\ edlast' = [op |-> "addEdge", rejected |-> TRUE]
               /\ UNCHANGED <<edlinks, status>>
          ELSE IF s = t
          THEN /\ status' = "No self-loop in Phase 1."
               /\ edlast' = [op |-> "addEdge", rejected |-> TRUE]
               /\ UNCHANGED edlinks
          ELSE IF ~HasNode(ednodes, s) \/ ~HasNode(ednodes, t)
          THEN /\ status' = "Source/target must be existing node IDs."
               /\ edlast' = [op |-> "addEdge", rejected |-> TRUE]
               /\ UNCHANGED edlinks
          ELSE IF \E i \in 1..Len(edlinks) :
                    \/ SameString(edlinks[i].source, s) /\ SameString(edlinks[i].target, t)
                    \/ SameString(edlinks[i].source, t) /\ SameString(edlinks[i].target, s)
          THEN /\ status' = "Edge already exists."
               /\ edlast' = [op |-> "addEdge", rejected |-> TRUE]
               /\ UNCHANGED edlinks
          ELSE /\ edlinks' = Draw(Append(edlinks, Link(s, t)))
               /\ status' = ""
               /\ edlast' = [op |-> "addEdge", rejected |-> FALSE]
    /\ UNCHANGED <<ednodes, newNodeId, src, dst, otherThanEdit>>

resetExample ==
    /\ ednodes' = ExampleNodes
    /\ edlinks' = Draw(ExampleLinks)
    /\ src' = <<"1">> /\ dst' = <<"2">> /\ newNodeId' = <<"5">>
    /\ status' = ""
    /\ edlast' = [op |-> "resetExample", rejected |-> FALSE]
    /\ UNCHANGED otherThanEdit

NextEdit == SetNewNodeId \/ SetSrc \/ SetDst \/ addNode \/ addEdge \/ resetExample

SpecEdit == InitEdit /\ [][NextEdit]_vars

\* --- claim ---

EndIds(l) == {l.source.id, l.target.id}

\* C22 as stated: the graph of the page is simple: node ids are unique and
\* not empty, every edge joins two different existing nodes, and no two
\* edges join the same unordered pair.
EditorGraphSimple ==
    /\ \A i, j \in 1..Len(ednodes) : ednodes[i].id = ednodes[j].id => i = j
    /\ \A i \in 1..Len(ednodes) : ednodes[i].id # <<>>
    /\ \A i \in 1..Len(edlinks) :
        /\ HasNode(ednodes, edlinks[i].source.id)
        /\ HasNode(ednodes, edlinks[i].target.id)
        /\ edlinks[i].source.id # edlinks[i].target.id
    /\ \A i, j \in 1..Len(edlinks) : EndIds(edlinks[i]) = EndIds(edlinks[j]) => i = j

----------------------------------------------------------------------------
(* project.ts: tab states, project snapshots and share links.
   Text is a sequence of UTF-16 code units, written as numbers. *)

MaxStateLen == 2   \* longest string held in a tab state

\* the printable ASCII characters, from code 32 to code 126
Ascii ==
    <<" ", "!", "\"", "#", "$", "%", "&", "'", "(", ")", "*", "+", ",", "-",
      ".", "/", "0", "1", "2", "3", "4", "5", "6", "7", "8", "9", ":", ";",
      "<", "=", ">", "?", "@", "A", "B", "C", "D", "E", "F", "G", "H", "I",
      "J", "K", "L", "M", "N", "O", "P", "Q", "R", "S", "T", "U", "V", "W",
      "X", "Y", "Z", "[", "\\", "]", "^", "_", "U+0060", "a", "b", "c", "d", "e",
      "f", "g", "h", "i", "j", "k", "l", "m", "n", "o", "p", "q", "r", "s",
      "t", "u", "v", "w", "x", "y", "z", "{", "|", "}", "~">>

Code(c) == 31 + CHOOSE i \in 1..Len(Ascii) : Ascii[i] = c
Codes(cs) == [i \in 1..Len(cs) |-> Code(cs[i])]

\* the concatenation of pieces[lo..hi]
RECURSIVE JoinRange(_, _, _)
JoinRange(pieces, lo, hi) ==
    IF lo > hi THEN <<>>
    ELSE IF lo = hi THEN pieces[lo]
    ELSE LET mid == (lo + hi) \div 2
         IN JoinRange(pieces, lo, mid) \o JoinRange(pieces, mid + 1, hi)

Join(pieces) == JoinRange(pieces, 1, Len(pieces))

\* hexadecimal digits
HexUpper == Codes(<<"0", "1", "2", "3", "4", "5", "6", "7", "8", "9",
                    "A", "B", "C", "D", "E", "F">>)
HexLower == Codes(<<"0", "1", "2", "3", "4", "5", "6", "7", "8", "9",
                    "a", "b", "c", "d", "e", "f">>)
IsHex(u) == \E d \in 1..16 : HexUpper[d] = u \/ HexLower[d] = u
HexVal(u) == (CHOOSE d \in 1..16 : HexUpper[d] = u \/ HexLower[d] = u) - 1

IsDigit(u) == u >= 48 /\ u <= 57
IsAlpha(u) == (u >= 65 /\ u <= 90) \/ (u >= 97 /\ u <= 122)

IsHighSurrogate(u) == u >= 55296 /\ u <= 56319
IsLowSurrogate(u) == u >= 56320 /\ u <= 57343

\* the unit at i is the first, or the second, half of a surrogate pair
PairStart(s, i) ==
    IsHighSurrogate(s[i]) /\ i < Len(s) /\ IsLowSurrogate(s[i + 1])
PairEnd(s, i) ==
    IsLowSurrogate(s[i]) /\ i > 1 /\ IsHighSurrogate(s[i - 1])
LoneSurrogate(s, i) ==
    \/ IsHighSurrogate(s[i]) /\ ~PairStart(s, i)
    \/ IsLowSurrogate(s[i]) /\ ~PairEnd(s, i)


\* --- JSON values, JSON.stringify and JSON.parse ---

JNull == [t |-> "null", s |-> <<>>, n |-> 0, keys |-> <<>>, vals |-> <<>>]
JStr(s) == [t |-> "str", s |-> s, n |-> 0, keys |-> <<>>, vals |-> <<>>]
JNum(n) == [t |-> "num", s |-> <<>>, n |-> n, keys |-> <<>>, vals |-> <<>>]
JObj(keys, vals) == [t |-> "obj", s |-> <<>>, n |-> 0, keys |-> keys, vals |-> vals]
EmptyObject == JObj(<<>>, <<>>)

\* \uXXXX for the unit u
UnicodeEscape(u) ==
    <<92, 117, HexLower[(u \div 4096) + 1], HexLower[((u \div 256) % 16) + 1],
      HexLower[((u \div 16) % 16) + 1], HexLower[(u % 16) + 1]>>

\* how JSON.stringify writes the unit at i of the string s
QuoteUnit(s, i) ==
    LET u == s[i] IN
    IF u = 34 THEN <<92, 34>>
    ELSE IF u = 92 THEN <<92, 92>>
    ELSE IF u = 10 THEN <<92, 110>>
    ELSE IF u < 32 \/ LoneSurrogate(s, i) THEN UnicodeEscape(u)
    ELSE <<u>>

Quote(s) == <<34>> \o Join([i \in 1..Len(s) |-> QuoteUnit(s, i)]) \o <<34>>

DecimalDigits(n) == Codes(StringOf(n))

RECURSIVE JsonStringify(_)
JsonStringify(v) ==
    CASE v.t = "null" -> Codes(<<"n", "u", "l", "l">>)
      [] v.t = "num" -> DecimalDigits(v.n)
      [] v.t = "str" -> Quote(v.s)
      [] v.t = "obj" ->
            <<123>>
            \o Join([k \in 1..Len(v.keys) |->
                        (IF k > 1 THEN <<44>> ELSE <<>>)
                        \o Quote(v.keys[k]) \o <<58>> \o JsonStringify(v.vals[k])])
            \o <<125>>

\* the number of backslashes that stand directly before position k, not
\* going back beyond position lo
BackslashRun(t, lo, k) ==
    CHOOSE r \in 0..(k - lo) :
        /\ \A x \in (k - r)..(k - 1) : t[x] = 92
        /\ (k - r = lo \/ t[k - r - 1] # 92)

\* the string literal that opens at i: where its closing quote is (0: none)
ClosingQuote(t, i) ==
    LET ends == {k \in (i + 1)..Len(t) :
                    t[k] = 34 /\ BackslashRun(t, i + 1, k) % 2 = 0}
    IN IF ends = {} THEN 0 ELSE SetMin(ends)

\* inside the literal's content c: the unit at x follows an escaping backslash
Escaped(c, x) == BackslashRun(c, 1, x) % 2 = 1
\* the unit at x is one of the four digits of a \u escape
InUnicodeEscape(c, x) ==
    \E d \in 1..4 : x - d >= 2 /\ c[x - d] = 117 /\ Escaped(c, x - d)

UnitOk(c, x) ==
    IF InUnicodeEscape(c, x) THEN IsHex(c[x])
    ELSE IF Escaped(c, x)
    THEN \/ c[x] \in {34, 92, 47, 98, 102, 110, 114, 116}
         \/ c[x] = 117 /\ x + 4 <= Len(c)
    ELSE IF c[x] = 92 THEN x < Len(c)
    ELSE c[x] >= 32

UnitOf(c, x) ==
    IF InUnicodeEscape(c, x) THEN <<>>
    ELSE IF Escaped(c, x)
    THEN CASE c[x] = 110 -> <<10>>
           [] c[x] = 98 -> <<8>>
           [] c[x] = 102 -> <<12>>
           [] c[x] = 114 -> <<13>>
           [] c[x] = 116 -> <<9>>
           [] c[x] = 117 ->
                <<4096 * HexVal(c[x + 1]) + 256 * HexVal(c[x + 2])
                    + 16 * HexVal(c[x + 3]) + HexVal(c[x + 4])>>
           [] OTHER -> <<c[x]>>
    ELSE IF c[x] = 92 THEN <<>>
    ELSE <<c[x]>>

Parsed(v, next) == [ok |-> TRUE, v |-> v, next |-> next]
ParseError == [ok |-> FALSE, v |-> JNull, next |-> 0]

ParseString(t, i) ==
    LET j == ClosingQuote(t, i)
        c == SubSeq(t, i + 1, j - 1)
    IN IF j = 0 \/ ~(\A x \in 1..Len(c) : UnitOk(c, x)) THEN ParseError
       ELSE Parsed(JStr(Join([x \in 1..Len(c) |-> UnitOf(c, x)])), j + 1)

ParseNumber(t, i) ==
    LET stop == SetMin({k \in i..(Len(t) + 1) : k > Len(t) \/ ~IsDigit(t[k])})
    IN Parsed(JNum(NumberOf([k \in 1..(stop - i) |->
                                Ascii[t[i + k - 1] - 31]]).v), stop)

Matches(t, i, word) ==
    /\ i + Len(word) - 1 <= Len(t)
    /\ \A k \in 1..Len(word) : t[i + k - 1] = word[k]

RECURSIVE ParseValue(_, _)
RECURSIVE ParseMembers(_, _, _, _)

\* the members of an object from position i on, i standing on a key
ParseMembers(t, i, keys, vals) ==
    IF i > Len(t) \/ t[i] # 34 THEN ParseError
    ELSE LET key == ParseString(t, i) IN
         IF ~key.ok \/ key.next > Len(t) \/ t[key.next] # 58 THEN ParseError
         ELSE LET val == ParseValue(t, key.next + 1) IN
              IF ~val.ok \/ val.next > Len(t) THEN ParseError
              ELSE IF t[val.next] = 125
              THEN Parsed(JObj(Append(keys, key.v.s), Append(vals, val.v)),
                          val.next + 1)
              ELSE IF t[val.next] = 44
              THEN ParseMembers(t, val.next + 1, Append(keys, key.v.s),
                                Append(vals, val.v))
              ELSE ParseError

ParseValue(t, i) ==
    IF i > Len(t) THEN ParseError
    ELSE IF t[i] = 34 THEN ParseString(t, i)
    ELSE IF IsDigit(t[i]) THEN ParseNumber(t, i)
    ELSE IF Matches(t, i, Codes(<<"n", "u", "l", "l">>)) THEN Parsed(JNull, i + 4)
    ELSE IF t[i] = 123
    THEN IF i < Len(t) /\ t[i + 1] = 125 THEN Parsed(EmptyObject, i + 2)
         ELSE ParseMembers(t, i + 1, <<>>, <<>>)
    ELSE ParseError

\* JSON.parse(text): ok is FALSE when it throws
JsonParse(t) ==
    LET r == ParseValue(t, 1) IN
    IF r.ok /\ r.next = Len(t) + 1 THEN r ELSE ParseError


\* --- encodeURIComponent, decodeURIComponent, escape, unescape ---

\* an outcome holding text; ok is FALSE when the function throws
TextOk(t) == [ok |-> TRUE, text |-> t]
TextError == [ok |-> FALSE, text |-> <<>>]

\* %XX, in upper case
PercentByte(b) == <<37, HexUpper[(b \div 16) + 1], HexUpper[(b % 16) + 1]>>

\* the UTF-8 bytes of the code point cp
Utf8(cp) ==
    IF cp < 128 THEN <<cp>>
    ELSE IF cp < 2048 THEN <<192 + (cp \div 64), 128 + (cp % 64)>>
    ELSE IF cp < 65536
    THEN <<224 + (cp \div 4096), 128 + ((cp \div 64) % 64), 128 + (cp % 64)>>
    ELSE <<240 + (cp \div 262144), 128 + ((cp \div 4096) % 64),
           128 + ((cp \div 64) % 64), 128 + (cp % 64)>>

\* the code point of the surrogate pair hi, lo
PairCodePoint(hi, lo) == 65536 + (hi - 55296) * 1024 + (lo - 56320)

\* the units encodeURIComponent leaves as they are: A-Z a-z 0-9 - _ . ! ~ * ' ( )
UriUnreserved(u) ==
    IsAlpha(u) \/ IsDigit(u) \/ u \in {45, 95, 46, 33, 126, 42, 39, 40, 41}

EncodeUnit(s, i) ==
    IF UriUnreserved(s[i]) THEN <<s[i]>>
    ELSE IF PairEnd(s, i) THEN <<>>
    ELSE LET cp == IF PairStart(s, i) THEN PairCodePoint(s[i], s[i + 1]) ELSE s[i]
             bytes == Utf8(cp)
         IN Join([k \in 1..Len(bytes) |-> PercentByte(bytes[k])])

encodeURIComponent(s) ==
    IF \E i \in 1..Len(s) : LoneSurrogate(s, i) THEN TextError
    ELSE TextOk(Join([i \in 1..Len(s) |-> EncodeUnit(s, i)]))

\* position i of s opens a %XX escape
IsPercentEscape(s, i) ==
    i >= 1 /\ i + 2 <= Len(s) /\ s[i] = 37 /\ IsHex(s[i + 1]) /\ IsHex(s[i + 2])
\* position i of s is one of the two digits of a %XX escape
InPercentEscape(s, i) ==
    \/ i >= 2 /\ IsPercentEscape(s, i - 1)
    \/ i >= 3 /\ IsPercentEscape(s, i - 2)
EscapeByte(s, i) == 16 * HexVal(s[i + 1]) + HexVal(s[i + 2])

\* unescape(s): every %XX becomes the unit XX (no %uXXXX occurs here)
unescape(s) ==
    Join([i \in 1..Len(s) |->
            IF IsPercentEscape(s, i) /\ ~InPercentEscape(s, i) THEN <<EscapeByte(s, i)>>
            ELSE IF InPercentEscape(s, i) THEN <<>>
            ELSE <<s[i]>>])

\* the units escape leaves as they are: A-Z a-z 0-9 @ * _ + - . /
EscapeUnreserved(u) ==
    IsAlpha(u) \/ IsDigit(u) \/ u \in {64, 42, 95, 43, 45, 46, 47}

\* escape(s)
escape(s) ==
    Join([i \in 1..Len(s) |->
            IF EscapeUnreserved(s[i]) THEN <<s[i]>>
            ELSE IF s[i] < 256 THEN PercentByte(s[i])
            ELSE <<37, 117, HexUpper[(s[i] \div 4096) + 1],
                   HexUpper[((s[i] \div 256) % 16) + 1],
                   HexUpper[((s[i] \div 16) % 16) + 1], HexUpper[(s[i] % 16) + 1]>>])


\* how many bytes the UTF-8 sequence led by byte b has (0: b leads none)
LeadLen(b) ==
    IF b < 128 THEN 1
    ELSE IF b >= 194 /\ b <= 223 THEN 2
    ELSE IF b >= 224 /\ b <= 239 THEN 3
    ELSE IF b >= 240 /\ b <= 244 THEN 4
    ELSE 0

\* position i of s opens the escape of a continuation byte
ContAt(s, i) ==
    i >= 1 /\ IsPercentEscape(s, i) /\ EscapeByte(s, i) >= 128 /\ EscapeByte(s, i) <= 191

\* the code point of the sequence of n escapes that opens at i
SeqCodePoint(s, i, n) ==
    LET b == [k \in 0..3 |-> IF k < n THEN EscapeByte(s, i + 3 * k) ELSE 0] IN
    CASE n = 1 -> b[0]
      [] n = 2 -> (b[0] - 192) * 64 + (b[1] - 128)
      [] n = 3 -> (b[0] - 224) * 4096 + (b[1] - 128) * 64 + (b[2] - 128)
      [] n = 4 -> (b[0] - 240) * 262144 + (b[1] - 128) * 4096
                    + (b[2] - 128) * 64 + (b[3] - 128)

\* the escape at i leads a well-formed UTF-8 sequence
SeqOk(s, i) ==
    LET n == LeadLen(EscapeByte(s, i)) IN
    /\ n > 0
    /\ \A k \in 1..(n - 1) : ContAt(s, i + 3 * k)
    /\ LET cp == SeqCodePoint(s, i, n) IN
       /\ cp >= (CASE n = 1 -> 0 [] n = 2 -> 128 [] n = 3 -> 2048 [] n = 4 -> 65536)
       /\ cp <= 1114111
       /\ ~(cp >= 55296 /\ cp <= 57343)

\* the continuation escape at i belongs to a sequence led before it
Covered(s, i) ==
    \E d \in 1..3 :
        /\ i - 3 * d >= 1
        /\ IsPercentEscape(s, i - 3 * d)
        /\ LeadLen(EscapeByte(s, i - 3 * d)) > d
        /\ SeqOk(s, i - 3 * d)
        /\ \A k \in 1..(d - 1) : ContAt(s, i - 3 * k)

\* the UTF-16 units of the code point cp
Utf16(cp) ==
    IF cp < 65536 THEN <<cp>>
    ELSE <<55296 + ((cp - 65536) \div 1024), 56320 + ((cp - 65536) % 1024)>>

\* what position i of s contributes to the decoded text; <<-1>> where the
\* text is malformed there
DecodeAt(s, i) ==
    IF InPercentEscape(s, i) THEN <<>>
    ELSE IF s[i] # 37 THEN <<s[i]>>
    ELSE IF ~IsPercentEscape(s, i) THEN <<0 - 1>>
    ELSE IF ContAt(s, i) THEN (IF Covered(s, i) THEN <<>> ELSE <<0 - 1>>)
    ELSE IF SeqOk(s, i)
    THEN Utf16(SeqCodePoint(s, i, LeadLen(EscapeByte(s, i))))
    ELSE <<0 - 1>>

\* decodeURIComponent(s): throws URIError on malformed text
decodeURIComponent(s) ==
    IF \E i \in 1..Len(s) : DecodeAt(s, i) = <<0 - 1>> THEN TextError
    ELSE TextOk(Join([i \in 1..Len(s) |-> DecodeAt(s, i)]))

\* how URLSearchParams decodes a name or a value: + is a space, a stray %
\* stays and malformed bytes become U+FFFD
FormDecodeAt(s, i) ==
    IF InPercentEscape(s, i) THEN <<>>
    ELSE IF s[i] = 43 THEN <<32>>
    ELSE IF s[i] = 37 /\ ~IsPercentEscape(s, i) THEN <<37>>
    ELSE IF DecodeAt(s, i) = <<0 - 1>> THEN <<65533>>
    ELSE DecodeAt(s, i)

FormDecode(s) == Join([i \in 1..Len(s) |-> FormDecodeAt(s, i)])

\* --- btoa and atob ---

Base64Char(v) ==
    IF v < 26 THEN 65 + v
    ELSE IF v < 52 THEN 97 + (v - 26)
    ELSE IF v < 62 THEN 48 + (v - 52)
    ELSE IF v = 62 THEN 43 ELSE 47

IsBase64Char(u) == IsAlpha(u) \/ IsDigit(u) \/ u = 43 \/ u = 47
Base64Val(u) == CHOOSE v \in 0..63 : Base64Char(v) = u

\* btoa(bin): throws when a unit is above 255
btoa(bin) ==
    IF \E i \in 1..Len(bin) : bin[i] > 255 THEN TextError
    ELSE LET n == Len(bin)
             byte(i) == IF i <= n THEN bin[i] ELSE 0
             out(k) ==
                LET g == (k - 1) \div 4
                    j == (k - 1) % 4
                    v == byte(3 * g + 1) * 65536 + byte(3 * g + 2) * 256 + byte(3 * g + 3)
                IN IF (j = 2 /\ 3 * g + 2 > n) \/ (j = 3 /\ 3 * g + 3 > n) THEN 61
                   ELSE Base64Char((v \div (CASE j = 0 -> 262144 [] j = 1 -> 4096
                                            [] j = 2 -> 64 [] j = 3 -> 1)) % 64)
         IN TextOk([k \in 1..(4 * ((n + 2) \div 3)) |-> out(k)])

NotAsciiSpace(u) == u \notin {9, 10, 12, 13, 32}

\* atob(s): white space is dropped, padding removed; throws on other text
atob(s) ==
    LET w == SelectSeq(s, NotAsciiSpace)
        n == Len(w)
        pad == IF n % 4 = 0 /\ n >= 2 /\ w[n] = 61 /\ w[n - 1] = 61 THEN 2
               ELSE IF n % 4 = 0 /\ n >= 1 /\ w[n] = 61 THEN 1
               ELSE 0
        d == SubSeq(w, 1, n - pad)
        m == Len(d)
        sextet(i) == IF i <= m THEN Base64Val(d[i]) ELSE 0
        out(k) ==
            LET g == (k - 1) \div 3
                j == (k - 1) % 3
                v == sextet(4 * g + 1) * 262144 + sextet(4 * g + 2) * 4096
                        + sextet(4 * g + 3) * 64 + sextet(4 * g + 4)
            IN (v \div (CASE j = 0 -> 65536 [] j = 1 -> 256 [] j = 2 -> 1)) % 256
    IN IF m % 4 = 1 \/ \E i \in 1..m : ~IsBase64Char(d[i]) THEN TextError
       ELSE TextOk([k \in 1..((m * 6) \div 8) |-> out(k)])


\* --- localStorage and the functions of project.ts ---

Tabs == <<"calculator", "algebra", "calculus", "matrices", "graphs", "graphTheory">>
ProjectKey == "project"
StoreKeys == Range(Tabs) \cup {ProjectKey}

\* the tab's name as text
TabName(tab) ==
    CASE tab = "calculator" -> Codes(<<"c", "a", "l", "c", "u", "l", "a", "t", "o", "r">>)
      [] tab = "algebra" -> Codes(<<"a", "l", "g", "e", "b", "r", "a">>)
      [] tab = "calculus" -> Codes(<<"c", "a", "l", "c", "u", "l", "u", "s">>)
      [] tab = "matrices" -> Codes(<<"m", "a", "t", "r", "i", "c", "e", "s">>)
      [] tab = "graphs" -> Codes(<<"g", "r", "a", "p", "h", "s">>)
      [] tab = "graphTheory" ->
            Codes(<<"g", "r", "a", "p", "h", "T", "h", "e", "o", "r", "y">>)

\* what localStorage holds under a key
NoItem == [present |-> FALSE, raw |-> <<>>]
Item(raw) == [present |-> TRUE, raw |-> raw]

\* v[name]; JNull also stands for undefined
Field(v, name) ==
    IF v.t = "obj" /\ \E k \in 1..Len(v.keys) : v.keys[k] = name
    THEN v.vals[SetMax({k \in 1..Len(v.keys) : v.keys[k] = name})]
    ELSE JNull

Truthy(v) ==
    CASE v.t = "null" -> FALSE
      [] v.t = "num" -> v.n # 0
      [] v.t = "str" -> v.s # <<>>
      [] v.t = "obj" -> TRUE

\* a ?? b
OrElse(a, b) == IF a = JNull THEN b ELSE a

getTabState(store, tab) ==
    LET item == store[tab] IN
    IF ~item.present \/ item.raw = <<>> THEN JNull
    ELSE IF ~JsonParse(item.raw).ok THEN JNull
    ELSE JsonParse(item.raw).v

persistTabState(store, tab, state) ==
    [store EXCEPT ![tab] = Item(JsonStringify(state))]

\* the snapshot made at time now
Snapshot(store, now) ==
    JObj(<<Codes(<<"c", "r", "e", "a", "t", "e", "d", "A", "t">>),
           Codes(<<"t", "a", "b", "s">>)>>,
         <<JNum(now),
           JObj([k \in 1..Len(Tabs) |-> TabName(Tabs[k])],
                [k \in 1..Len(Tabs) |-> OrElse(getTabState(store, Tabs[k]), EmptyObject)])>>)

saveProjectSnapshot(store, now) ==
    [snapshot |-> Snapshot(store, now),
     store |-> [store EXCEPT ![ProjectKey] = Item(JsonStringify(Snapshot(store, now)))]]

\* window.location.origin and window.location.pathname
Origin == Codes(<<"h", "t", "t", "p", "s", ":", "/", "/", "m", ".", "x">>)
Pathname == Codes(<<"/">>)
ProjectParam == Codes(<<"p", "r", "o", "j", "e", "c", "t">>)
CalculatorHash == Codes(<<"#", "/", "c", "a", "l", "c", "u", "l", "a", "t", "o", "r">>)

\* the link it returns: ok is FALSE when it throws
buildProjectShareLink(store, now) ==
    Bind(saveProjectSnapshot(store, now), LAMBDA saved :
    Bind(JsonStringify(saved.snapshot), LAMBDA json :
    Bind(encodeURIComponent(json), LAMBDA utf8 :
    Bind(IF utf8.ok THEN unescape(utf8.text) ELSE <<>>, LAMBDA bin :
    Bind(IF utf8.ok THEN btoa(bin) ELSE TextError, LAMBDA encoded :
    Bind(IF encoded.ok THEN encodeURIComponent(encoded.text) ELSE TextError, LAMBDA param :
        [ok |-> param.ok,
         text |-> IF param.ok
                  THEN Origin \o Pathname \o <<63>> \o ProjectParam \o <<61>>
                         \o param.text \o CalculatorHash
                  ELSE <<>>,
         store |-> saved.store]))))))

\* window.location.search of the page opened at url
LocationSearch(url) ==
    LET marks == {i \in 1..Len(url) : url[i] = 35} \cup {Len(url) + 1}
        beforeHash == SubSeq(url, 1, SetMin(marks) - 1)
        starts == {i \in 1..Len(beforeHash) : beforeHash[i] = 63}
    IN IF starts = {} THEN <<>>
       ELSE SubSeq(beforeHash, SetMin(starts), Len(beforeHash))

\* new URLSearchParams(search).get(name): found is FALSE for null
SearchParamsGet(search, name) ==
    LET q == IF search # <<>> /\ search[1] = 63 THEN Tail(search) ELSE search
        cuts == {0, Len(q) + 1} \cup {i \in 1..Len(q) : q[i] = 38}
        part(a) == SubSeq(q, a + 1, SetMin({b \in cuts : b > a}) - 1)
        eq(p) == SetMin({i \in 1..Len(p) : p[i] = 61} \cup {Len(p) + 1})
        key(p) == FormDecode(SubSeq(p, 1, eq(p) - 1))
        value(p) == FormDecode(SubSeq(p, eq(p) + 1, Len(p)))
        hits == {a \in cuts : a <= Len(q) /\ part(a) # <<>> /\ key(part(a)) = name}
    IN IF hits = {} THEN [found |-> FALSE, text |-> <<>>]
       ELSE [found |-> TRUE, text |-> value(part(SetMin(hits)))]

\* variant: a tab whose shared state is empty is left as it was
hydrateTabsNonEmpty(store, tabs) ==
    [k \in StoreKeys |->
        IF k # ProjectKey /\ Truthy(Field(tabs, TabName(k)))
            /\ Field(tabs, TabName(k)) # EmptyObject
        THEN Item(JsonStringify(Field(tabs, TabName(k))))
        ELSE store[k]]

\* the six `if (tabs.X) persistTabState("X", tabs.X)` of hydrateProjectFromUrl
hydrateTabs(store, tabs) ==
    [k \in StoreKeys |->
        IF k # ProjectKey /\ Truthy(Field(tabs, TabName(k)))
        THEN persistTabState(store, k, Field(tabs, TabName(k)))[k]
        ELSE store[k]]

hydrateProjectFromUrl(store, url) ==
    Bind(SearchParamsGet(LocationSearch(url), ProjectParam), LAMBDA encoded :
    Bind(decodeURIComponent(encoded.text), LAMBDA decoded :
    Bind(IF decoded.ok THEN atob(decoded.text) ELSE TextError, LAMBDA bin :
    Bind(IF bin.ok THEN escape(bin.text) ELSE <<>>, LAMBDA escaped :
    Bind(IF bin.ok THEN decodeURIComponent(escaped) ELSE TextError, LAMBDA json :
    Bind(IF json.ok THEN JsonParse(json.text) ELSE ParseError, LAMBDA parsed :
        IF ~encoded.found \/ encoded.text = <<>> THEN [ret |-> FALSE, store |-> store]
        ELSE IF ~parsed.ok \/ parsed.v = JNull THEN [ret |-> FALSE, store |-> store]
        ELSE [ret |-> TRUE,
              store |-> hydrateTabs(store,
                           OrElse(Field(parsed.v, Codes(<<"t", "a", "b", "s">>)),
                                  EmptyObject))]))))))


\* --- inputs ---

\* the units the strings of a tab state are made of: a " \ newline ~ ?,
\* the euro sign and the two halves of a surrogate pair
StateUnits == {97, 34, 92, 10, 126, 63, 8364, 55357, 56832}
StateStrings == UNION {[1..n -> StateUnits] : n \in 0..MaxStateLen}

ExprKey == Codes(<<"e", "x", "p", "r">>)
TabState(s) == JObj(<<ExprKey>>, <<JStr(s)>>)

\* what the pages have stored for the calculator tab
CalculatorItems ==
    {NoItem, Item(JsonStringify(EmptyObject))}
        \cup {Item(JsonStringify(TabState(s))) : s \in StateStrings}

\* what is stored for each of the other tabs: nothing, the state of a page,
\* or text that is not JSON
OtherItems == {NoItem, Item(JsonStringify(TabState(<<126, 126, 126>>))), Item(<<120>>)}

SenderStores ==
    {[k \in StoreKeys |->
        IF k = "calculator" THEN c
        ELSE IF k = "algebra" THEN o
        ELSE IF k = "graphTheory" THEN Item(JsonStringify(TabState(<<63>>)))
        ELSE NoItem] : c \in CalculatorItems, o \in OtherItems}

ReceiverStores ==
    {[k \in StoreKeys |-> NoItem],
     [k \in StoreKeys |->
        IF k = ProjectKey THEN NoItem ELSE Item(JsonStringify(TabState(<<97, 97>>)))]}

\* Date.now()
Clock == {7, 1234}

otherThanProj ==
    <<graphVars, bfsVars, parseVars, matVars, detVars, evalVars, calcVars,
      editVars, histVars, pageVars, openVars>>

InitProj ==
    /\ store1 \in SenderStores
    /\ store2 \in ReceiverStores
    /\ plink = <<>> /\ hret = "none"
    /\ GraphIdle /\ BfsIdle /\ ParseIdle /\ MatIdle /\ DetIdle /\ EvalIdle /\ CalcIdle
    /\ EditIdle /\ HistIdle /\ PageIdle /\ OpenIdle

\* the first browser builds the link
BuildProjectShareLink ==
    /\ plink = <<>>
    /\ \E now \in Clock :
        LET r == buildProjectShareLink(store1, now) IN
        /\ r.ok
        /\ plink' = r.text
        /\ store1' = r.store
    /\ UNCHANGED <<store2, hret, otherThanProj>>

\* the second browser opens the link
HydrateProjectFromUrl ==
    /\ plink # <<>> /\ hret = "none"
    /\ LET h == hydrateProjectFromUrl(store2, plink) IN
        /\ store2' = h.store
        /\ hret' = IF h.ret THEN "true" ELSE "false"
    /\ UNCHANGED <<store1, plink, otherThanProj>>

NextProj == BuildProjectShareLink \/ HydrateProjectFromUrl

SpecProj == InitProj /\ [][NextProj]_vars

\* --- claim ---

\* word occurs in text
Occurs(word, t) ==
    \E i \in 0..(Len(t) - Len(word)) : SubSeq(t, i + 1, i + Len(word)) = word

\* C23: once the link built in the first browser has been opened in the
\* second, hydrateProjectFromUrl has returned true and each tab's stored
\* state in the second browser is the one of the first, the empty object
\* standing for a tab that had none.
ShareLinkRoundTrip ==
    hret # "none" =>
        /\ hret = "true"
        /\ \A k \in 1..Len(Tabs) :
            /\ store2[Tabs[k]].present
            /\ getTabState(store2, Tabs[k])
                = OrElse(getTabState(store1, Tabs[k]), EmptyObject)

ShareLinkRoundTripWitness ==
    /\ hret = "true"
    /\ store1["calculator"] = Item(JsonStringify(TabState(<<55357, 56832>>)))
    /\ store1["algebra"] = Item(<<120>>)
    /\ store2["calculus"] = Item(JsonStringify(EmptyObject))
    /\ store2["calculator"] = store1["calculator"]
    /\ Occurs(Codes(<<"%", "2", "B">>), plink)

----------------------------------------------------------------------------
(* lib/storage: loadHistory, saveHistory, pushHistory, setHistoryFlag,
   setHistoryTags, clearHistory *)

MaxHistOps == 2    \* history calls made in one run
MaxSmallHistory == 2    \* the short stored lists have up to this many items

HistoryLimit == 200

\* what localStorage holds under a history key: nothing, a JSON array of
\* items, or some other text
NoHistory == [kind |-> "none", items |-> <<>>]
StoredList(items) == [kind |-> "list", items |-> items]
OtherText == [kind |-> "other", items |-> <<>>]

\* { ...it, pinned: Boolean(it.pinned), favorite: Boolean(it.favorite),
\*   tags: Array.isArray(it.tags) ? it.tags : [] }
Normalise(it) ==
    [id |-> it.id, createdAt |-> it.createdAt, payload |-> it.payload,
     pinned |-> IF "pinned" \in DOMAIN it THEN it.pinned ELSE FALSE,
     favorite |-> IF "favorite" \in DOMAIN it THEN it.favorite ELSE FALSE,
     tags |-> IF "tags" \in DOMAIN it THEN it.tags ELSE <<>>]

\* variant: the newest first, pinned or not
CompareByTime(a, b) == b.createdAt - a.createdAt

\* the comparator of loadHistory: negative when a goes before b
Compare(a, b) ==
    IF a.pinned /\ ~b.pinned THEN 0 - 1
    ELSE IF ~a.pinned /\ b.pinned THEN 1
    ELSE b.createdAt - a.createdAt

\* how many items of the sorted b[lo..hi] go before x, lo - 1 of them known
RECURSIVE CountBefore(_, _, _, _)
CountBefore(b, x, lo, hi) ==
    IF lo > hi THEN lo - 1
    ELSE LET mid == (lo + hi) \div 2 IN
         IF Compare(b[mid], x) < 0 THEN CountBefore(b, x, mid + 1, hi)
         ELSE CountBefore(b, x, lo, mid - 1)

\* the stable merge of the sorted a and b, a's items first among equals
RECURSIVE Merge(_, _)
Merge(a, b) ==
    IF a = <<>> THEN b
    ELSE IF b = <<>> THEN a
    ELSE LET m == (Len(a) + 1) \div 2
             k == CountBefore(b, a[m], 1, Len(b))
         IN Merge(SubSeq(a, 1, m - 1), SubSeq(b, 1, k)) \o <<a[m]>>
                \o Merge(SubSeq(a, m + 1, Len(a)), SubSeq(b, k + 1, Len(b)))

\* items.sort(compare): a stable sort
RECURSIVE Sort(_)
Sort(s) ==
    IF Len(s) <= 1 THEN s
    ELSE LET m == Len(s) \div 2
         IN Merge(Sort(SubSeq(s, 1, m)), Sort(SubSeq(s, m + 1, Len(s))))

loadHistory(h) ==
    LET raw == IF h.v2.kind # "none" THEN h.v2 ELSE h.v1 IN
    IF raw.kind # "list" THEN <<>>
    ELSE Sort([i \in 1..Len(raw.items) |-> Normalise(raw.items[i])])

\* variant: everything is stored
saveHistoryAll(h, items) == [h EXCEPT !.v2 = StoredList(items)]

saveHistory(h, items) ==
    [h EXCEPT !.v2 = StoredList(SubSeq(items, 1,
                        IF Len(items) < HistoryLimit THEN Len(items) ELSE HistoryLimit))]

\* variant: the new item is put at the end
pushHistoryAtEnd(h, payload, id, now) ==
    saveHistory(h, loadHistory(h) \o
        <<[id |-> id, createdAt |-> now, payload |-> payload, pinned |-> FALSE,
           favorite |-> FALSE, tags |-> <<>>]>>)

pushHistory(h, payload, id, now) ==
    saveHistory(h,
        <<[id |-> id, createdAt |-> now, payload |-> payload, pinned |-> FALSE,
           favorite |-> FALSE, tags |-> <<>>]>> \o loadHistory(h))

setHistoryFlag(h, id, key, value) ==
    LET items == loadHistory(h) IN
    saveHistory(h, [i \in 1..Len(items) |->
        IF items[i].id = id
        THEN (IF key = "pinned" THEN [items[i] EXCEPT !.pinned = value]
              ELSE [items[i] EXCEPT !.favorite = value])
        ELSE items[i]])

clearHistory(h) == [h EXCEPT !.v2 = NoHistory]

NotEmpty(t) == t # <<>>

setHistoryTags(h, id, tags) ==
    LET items == loadHistory(h)
        kept == SelectSeq([i \in 1..Len(tags) |-> Trim(tags[i])], NotEmpty)
        normalized == SubSeq(kept, 1, IF Len(kept) < 6 THEN Len(kept) ELSE 6)
    IN saveHistory(h, [i \in 1..Len(items) |->
            IF items[i].id = id THEN [items[i] EXCEPT !.tags = normalized]
            ELSE items[i]])


\* --- inputs ---

\* n items stored newest first, those at the positions in pins pinned
StoredItems(n, pins) ==
    [i \in 1..n |->
        [id |-> i, createdAt |-> n - i + 1, payload |-> "old", pinned |-> i \in pins,
         favorite |-> FALSE, tags |-> <<>>]]

\* n items as the first version of the module stored them
LegacyItems(n) ==
    [i \in 1..n |-> [id |-> 300 + i, createdAt |-> n - i + 1, payload |-> "legacy"]]

PinChoices(n) == {{}, 1..n, {n}, {1}}

SmallLists ==
    UNION {{StoredItems(n, pins) : pins \in PinChoices(n)} : n \in 0..MaxSmallHistory}
FullLists ==
    UNION {{StoredItems(n, pins) : pins \in PinChoices(n)} :
                n \in {HistoryLimit - 1, HistoryLimit}}

InitialHistories ==
    {[v2 |-> a, v1 |-> b] :
        a \in {NoHistory, OtherText} \cup {StoredList(l) : l \in SmallLists},
        b \in {NoHistory, StoredList(LegacyItems(2))}}
    \cup {[v2 |-> StoredList(l), v1 |-> NoHistory] : l \in FullLists}

FlagArgs ==
    {[id |-> 1, key |-> "pinned", value |-> TRUE],
     [id |-> 1, key |-> "pinned", value |-> FALSE],
     [id |-> 1, key |-> "favorite", value |-> TRUE],
     [id |-> HistoryLimit, key |-> "pinned", value |-> TRUE],
     [id |-> HistoryLimit + 1, key |-> "pinned", value |-> TRUE],
     [id |-> 301, key |-> "pinned", value |-> TRUE]}

TagArgs ==
    {[id |-> 1, tags |-> <<<<" ", "t">>, <<" ">>>>],
     [id |-> 302, tags |-> <<<<"t">>>>]}

otherThanHist ==
    <<graphVars, bfsVars, parseVars, matVars, detVars, evalVars, calcVars,
      editVars, projVars, pageVars, openVars>>

InitHist ==
    /\ hist \in InitialHistories
    /\ hnow = HistoryLimit /\ hcount = 0 /\ hops = 0 /\ hlast = <<>>
    /\ GraphIdle /\ BfsIdle /\ ParseIdle /\ MatIdle /\ DetIdle /\ EvalIdle /\ CalcIdle
    /\ EditIdle /\ ProjIdle /\ PageIdle /\ OpenIdle

\* the time does not go back; two calls may fall in the same millisecond
PushHistory ==
    /\ hops < MaxHistOps
    /\ \E now \in {hnow, hnow + 1} :
        /\ hist' = pushHistory(hist, "new", HistoryLimit + hcount + 1, now)
        /\ hnow' = now
    /\ hcount' = hcount + 1
    /\ hops' = hops + 1
    /\ hlast' = [op |-> "push", id |-> HistoryLimit + hcount + 1]
    /\ UNCHANGED otherThanHist

SetHistoryFlag ==
    /\ hops < MaxHistOps
    /\ \E a \in FlagArgs :
        /\ hist' = setHistoryFlag(hist, a.id, a.key, a.value)
        /\ hlast' = [op |-> "flag", id |-> a.id]
    /\ hops' = hops + 1
    /\ UNCHANGED <<hnow, hcount, otherThanHist>>

SetHistoryTags ==
    /\ hops < MaxHistOps
    /\ \E a \in TagArgs :
        /\ hist' = setHistoryTags(hist, a.id, a.tags)
        /\ hlast' = [op |-> "tags", id |-> a.id]
    /\ hops' = hops + 1
    /\ UNCHANGED <<hnow, hcount, otherThanHist>>

ClearHistory ==
    /\ hops < MaxHistOps
    /\ hist' = clearHistory(hist)
    /\ hlast' = [op |-> "clear", id |-> 0]
    /\ hops' = hops + 1
    /\ UNCHANGED <<hnow, hcount, otherThanHist>>

NextHist == PushHistory \/ SetHistoryFlag \/ SetHistoryTags \/ ClearHistory

SpecHist == InitHist /\ [][NextHist]_vars


\* --- claims about the history ---

\* C26: the list stored under the history key and the list loadHistory
\* returns never hold more than 200 items.
HistoryAtMostLimit ==
    /\ Len(hist.v2.items) <= HistoryLimit
    /\ Len(loadHistory(hist)) <= HistoryLimit

HistoryAtMostLimitWitness ==
    /\ hlast # <<>> /\ hlast.op = "push"
    /\ hcount = 2
    /\ Len(hist.v2.items) = HistoryLimit
    /\ Len(loadHistory(hist)) = HistoryLimit

Ids(items) == {items[i].id : i \in 1..Len(items)}
Unpinned(items) == {i \in 1..Len(items) : ~items[i].pinned}

\* C27: a pushHistory made while 200 items are stored keeps the new item and
\* drops exactly one old item, the last one of loadHistory's order; when
\* some item is unpinned the dropped one is unpinned and no unpinned item is
\* older than it.
PushAtLimitDropsLast ==
    [][(hlast' # <<>> /\ hlast'.op = "push" /\ hcount' = hcount + 1
            /\ Len(loadHistory(hist)) = HistoryLimit) =>
        LET old == loadHistory(hist)
            dropped == old[HistoryLimit]
        IN /\ Ids(loadHistory(hist')) = (Ids(old) \ {dropped.id}) \cup {hlast'.id}
           /\ Len(loadHistory(hist')) = HistoryLimit
           /\ Unpinned(old) # {} =>
                /\ ~dropped.pinned
                /\ \A i \in Unpinned(old) : old[i].createdAt >= dropped.createdAt]_vars

\* the oldest item is pinned and has outlived a push that dropped the
\* second oldest
PushAtLimitWitness ==
    /\ hlast # <<>> /\ hlast.op = "push"
    /\ Len(hist.v2.items) = HistoryLimit
    /\ \E i \in 1..Len(hist.v2.items) :
        hist.v2.items[i].id = HistoryLimit /\ hist.v2.items[i].pinned
    /\ HistoryLimit - 1 \notin Ids(hist.v2.items)
    /\ HistoryLimit + 1 \in Ids(hist.v2.items)

\* C28: in the list loadHistory returns no unpinned item stands before a
\* pinned one, and of two neighbours of the same group the first is not the
\* older one (so each group is in order of decreasing createdAt).
LoadHistoryOrdered ==
    LET l == loadHistory(hist) IN
    \A i \in 1..(Len(l) - 1) :
        /\ l[i + 1].pinned => l[i].pinned
        /\ l[i].pinned = l[i + 1].pinned => l[i].createdAt >= l[i + 1].createdAt

\* an old item has just been pinned and stands before the item pushed
\* before that
LoadHistoryOrderedWitness ==
    /\ hlast # <<>> /\ hlast.op = "flag" /\ hcount = 1
    /\ LET l == loadHistory(hist) IN
       /\ Len(l) >= 3
       /\ l[1].pinned /\ ~l[2].pinned
       /\ l[1].createdAt < l[2].createdAt
       /\ l[2].id = HistoryLimit + 1

\* C29 as stated: after clearHistory loadHistory returns the empty list,
\* whatever was stored under the current or the legacy key.
EmptyAfterClear ==
    (hlast # <<>> /\ hlast.op = "clear") => loadHistory(hist) = <<>>

----------------------------------------------------------------------------
(* The compute actions of the pages: MatricesPage.doOp,
   CalculusPage.doDerivative, CalculatorPage.onCalculate *)

MaxPageActions == 2    \* compute actions made in one run

\* the messages of the matrix functions, word by word
WordsOf(msg) ==
    CASE msg = NonNumericMsg -> <<"Matrix", "contains", "non-numeric", "value", ".">>
      [] msg = EmptyMsg -> <<"Empty", "matrix", ".">>
      [] msg = RaggedMsg ->
            <<"All", "rows", "must", "have", "the", "same", "number", "of",
              "columns", ".">>
      [] msg = SizeMsg -> <<"Matrix", "sizes", "must", "match", ".">>
      [] msg = InnerMsg -> <<"A", "columns", "must", "equal", "B", "rows", ".">>
      [] msg = NotSquareDetMsg ->
            <<"Determinant", "requires", "a", "square", "matrix", ".">>
      [] msg = NotSquareInvMsg -> <<"Inverse", "requires", "a", "square", "matrix", ".">>
      [] msg = SingularMsg -> <<"Matrix", "is", "singular", "(", "no", "inverse", ")", ".">>
      [] OTHER -> <<>>

InvalidXMsg == <<"Invalid", "x", ".">>

\* the default h of numericDerivative, 1e-5
DefaultH == Frac(1, 100000)

\* one call made by a handler and how it ended
Called(fn, ok, msg, val) == [fn |-> fn, ok |-> ok, msg |-> msg, val |-> val]
\* a call of a matrix function, out being its outcome
MatrixCall(fn, out) == Called(fn, out.err = "", WordsOf(out.err), out.val)
\* a call of evaluateExpression or of a numeric function
NumericCall(fn, out) == Called(fn, out.ok, out.msg, out.val)

\* determinant(A) and inverse(A) on a matrix of numbers: the arrays are
\* made, the function is called, the result is read back
DeterminantOf(A) ==
    LET a == AllocRows(<<>>, FracMatrix(A)) IN determinant(a.h, a.M).out
InverseOf(A) ==
    LET a == AllocRows(<<>>, FracMatrix(A))
        r == inverse(a.h, a.M)
    IN IF r.out.err # "" THEN r.out ELSE Return(Deref(r.h, r.out.val))

\* the calls doOp makes inside its try block, up to the first that throws
doOpCalls(op, Atext, Btext) ==
    LET pa == MatrixCall("parseMatrix", parseMatrix(Atext))
        pb == MatrixCall("parseMatrix", parseMatrix(Btext))
    IN IF ~pa.ok THEN <<pa>>
       ELSE IF op \in {"add", "mul"}
       THEN IF ~pb.ok THEN <<pa, pb>>
            ELSE <<pa, pb,
                   IF op = "add" THEN MatrixCall("matrixAdd", matrixAdd(pa.val, pb.val))
                   ELSE MatrixCall("matrixMul", matrixMul(pa.val, pb.val))>>
       ELSE IF op = "det" THEN <<pa, MatrixCall("determinant", DeterminantOf(pa.val))>>
       ELSE <<pa, MatrixCall("inverse", InverseOf(pa.val))>>

\* the calls doDerivative makes inside its try block
doDerivativeCalls(e, x0) ==
    LET x == NumberOf(Trim(x0)) IN
    IF ~x.finite THEN <<Called("Number", FALSE, InvalidXMsg, <<>>)>>
    ELSE <<Called("Number", TRUE, <<>>, x.v),
           NumericCall("numericDerivative", numericDerivative(e, Num(x.v), DefaultH))>>

\* the call onCalculate makes inside its try block
onCalculateCalls(e, eng) ==
    <<NumericCall("evaluateExpression", evaluateExpression(e, eng))>>

\* what the result field shows
ShownValue(v) == [ok |-> TRUE, msg |-> <<>>, val |-> v]
ShownError(msg) == [ok |-> FALSE, msg |-> msg, val |-> <<>>]

\* variant: the record is pushed whether or not the calls succeeded
FinishPushAlways(calls, area, h, id, now) ==
    LET last == calls[Len(calls)] IN
    [result |-> IF last.ok THEN ShownValue(last.val)
                ELSE ShownError(friendlyMathError(ErrorOf(last.msg))),
     hist |-> pushHistory(h, [area |-> area, resultText |-> last.val], id, now)]

\* the end of each handler: setResult(txt) and pushHistory(...) when the try
\* block ran through, setResult(friendlyMathError(e)) when a call threw
Finish(calls, area, h, id, now) ==
    LET last == calls[Len(calls)] IN
    IF last.ok
    THEN [result |-> ShownValue(last.val),
          hist |-> pushHistory(h, [area |-> area, resultText |-> last.val], id, now)]
    ELSE [result |-> ShownError(friendlyMathError(ErrorOf(last.msg))),
          hist |-> h]

\* --- inputs ---
PageTexts ==
    {<<"1", " ", "2", "\n", "3", " ", "4">>, <<"1", " ", "2", "\n", "2", " ", "4">>,
     <<"1", " ", "2">>, <<"1", " ", "2", "\n", "3">>, <<"a">>, <<>>}

PageOps == {"add", "mul", "det", "inv"}

PageExprs == {<<"1">>, <<"0", "/", "x">>, <<"[", "x", "]">>, <<"y">>, <<" ">>}
PagePoints == {<<"0">>, <<"1">>, <<" ", "2">>, <<"a">>, <<>>}

CalculatorExprs == {<<"1">>, <<" ">>}
PageEngineOutcomes ==
    {o \in EngineOutcomes :
        o.kind = "throw" =>
            (o.error.type # "string" /\ o.error.message \in Phrases \cup {<<>>})}

PageHistories ==
    {[v2 |-> NoHistory, v1 |-> NoHistory],
     [v2 |-> StoredList(StoredItems(1, {})), v1 |-> NoHistory],
     [v2 |-> NoHistory, v1 |-> StoredList(LegacyItems(2))]}

otherThanPage ==
    <<graphVars, bfsVars, parseVars, matVars, detVars, evalVars, calcVars,
      editVars, projVars, openVars>>

InitPage ==
    /\ pgres = <<>> /\ pglast = <<>> /\ pgsteps = 0
    /\ hist \in PageHistories
    /\ hnow = HistoryLimit /\ hcount = 0 /\ hops = 0 /\ hlast = <<>>
    /\ GraphIdle /\ BfsIdle /\ ParseIdle /\ MatIdle /\ DetIdle /\ EvalIdle /\ CalcIdle
    /\ EditIdle /\ ProjIdle /\ OpenIdle

\* a handler has run: calls are the calls it made, now is Date.now()
Computed(page, calls, now) ==
    LET f == Finish(calls, page, hist, HistoryLimit + hcount + 1, now) IN
    /\ pgres' = f.result
    /\ hist' = f.hist
    /\ hcount' = IF f.hist = hist THEN hcount ELSE hcount + 1
    /\ hnow' = now
    /\ pglast' = [page |-> page, calls |-> calls]
    /\ pgsteps' = pgsteps + 1
    /\ UNCHANGED <<hops, hlast, otherThanPage>>

doOp ==
    /\ pgsteps < MaxPageActions
    /\ \E op \in PageOps : \E Atext \in PageTexts : \E Btext \in PageTexts :
        Computed("Matrices", doOpCalls(op, Atext, Btext), hnow + 1)

doDerivative ==
    /\ pgsteps < MaxPageActions
    /\ \E e \in PageExprs : \E x0 \in PagePoints :
        Computed("Calculus", doDerivativeCalls(e, x0), hnow + 1)

onCalculate ==
    /\ pgsteps < MaxPageActions
    /\ \E e \in CalculatorExprs : \E eng \in PageEngineOutcomes :
        Computed("Calculator", onCalculateCalls(e, eng), hnow + 1)

NextPage == doOp \/ doDerivative \/ onCalculate

SpecPage == InitPage /\ [][NextPage]_vars

\* --- claims ---

\* the calls that threw
Thrower(calls) == {i \in 1..Len(calls) : ~calls[i].ok}

\* the items of the history after that were not in the history before
Pushed(before, after) ==
    {i \in 1..Len(loadHistory(after)) :
        \A j \in 1..Len(loadHistory(before)) :
            loadHistory(after)[i].id # loadHistory(before)[j].id}

KernelMessages ==
    {FunctionMsg, VariableMsg, SyntaxMsg, DivZeroMsg, EmptyExprMsg,
     DerivUndefinedMsg, IntegralUndefinedMsg}
    \cup {WordsOf(m) : m \in {NonNumericMsg, EmptyMsg, RaggedMsg, SizeMsg, InnerMsg,
                              NotSquareDetMsg, NotSquareInvMsg, SingularMsg}}

\* C30: friendlyMathError applied to one of its four friendly messages, to the
\* empty-expression message or to a message thrown by numericDerivative,
\* numericIntegral, parseMatrix, matrixAdd, matrixMul, determinant or inverse
\* gives that message back, so the error text a page displays is the text the
\* kernel raised.
FriendlyIdempotent ==
    /\ \A m \in KernelMessages : friendlyMathError(ErrorOf(m)) = m
    /\ (pgsteps > 0 /\ ~pgres.ok /\ pglast.calls[Len(pglast.calls)].msg \in KernelMessages) =>
            pgres.msg = pglast.calls[Len(pglast.calls)].msg

FriendlyIdempotentWitness ==
    /\ pgsteps > 0
    /\ pglast.page = "Calculator"
    /\ pglast.calls[1].msg = DivZeroMsg
    /\ pgres = ShownError(DivZeroMsg)

----------------------------------------------------------------------------
(* Opening the app: CalculatorPage's first render and persist effect, App's
   hydrateProjectFromUrl effect *)

MaxFieldEdits == 2    \* fields the user edits after the app has opened

FieldKeys == <<"latex", "expr", "vars", "result">>
KeyName(key) ==
    CASE key = "latex" -> Codes(<<"l", "a", "t", "e", "x">>)
      [] key = "expr" -> ExprKey
      [] key = "vars" -> Codes(<<"v", "a", "r", "s">>)
      [] key = "result" -> Codes(<<"r", "e", "s", "u", "l", "t">>)

\* the fallbacks of the four useState initialisers
LatexFallback ==
    Codes(<<"\\", "f", "r", "a", "c", "{", "1", "}", "{", "n", "(", "n",
            "-", "1", ")", "}", "\\", "s", "u", "m", "_", "{", "u", "\\",
            "n", "e", "q", " ", "v", "}", " ", "d", "(", "u", ",", "v",
            ")">>)
ExprFallback ==
    Codes(<<"(", "1", ")", "/", "(", "n", "*", "(", "n", "-", "1", ")",
            ")">>)
VarsFallback ==
    Codes(<<"n", "=", "1", "0">>)
Fallback(key) ==
    CASE key = "latex" -> LatexFallback
      [] key = "expr" -> ExprFallback
      [] key = "vars" -> VarsFallback
      [] key = "result" -> <<>>

\* window.location.hash
LocationHash(url) ==
    LET marks == {i \in 1..Len(url) : url[i] = 35} IN
    IF marks = {} THEN <<>> ELSE SubSeq(url, SetMin(marks), Len(url))

\* getHashQueryParams(): the text the URLSearchParams is made from
getHashQueryParams(url) ==
    LET hash == LocationHash(url)
        idx == {i \in 1..Len(hash) : hash[i] = 63}
    IN IF idx = {} THEN <<>> ELSE SubSeq(hash, SetMin(idx) + 1, Len(hash))

getInitialTabValue(store, tab, key, queryValue, fallback) ==
    IF queryValue.found THEN queryValue.text
    ELSE LET fromState == Field(getTabState(store, tab), KeyName(key)) IN
         IF fromState.t = "str" THEN fromState.s ELSE fallback

\* { latex, expr, vars, result }
PageState(fields) ==
    JObj([k \in 1..Len(FieldKeys) |-> KeyName(FieldKeys[k])],
         [k \in 1..Len(FieldKeys) |-> JStr(fields[FieldKeys[k]])])

\* the fields after the first render of CalculatorPage
InitialFields(store, url) ==
    [key \in Range(FieldKeys) |->
        getInitialTabValue(store, "calculator", key,
            SearchParamsGet(getHashQueryParams(url), KeyName(key)), Fallback(key))]

LoadedStatus == "Project loaded from link."

\* --- inputs ---
EditedTexts == {<<>>, Codes(<<"1">>), Codes(<<"x", "+", "2">>)}

\* what a calculator page has in its fields
SenderFields ==
    {[key \in Range(FieldKeys) |-> IF key = "result" THEN r ELSE e] :
        e \in {Codes(<<"x", "+", "2">>), Codes(<<"\\", "p", "i">>)},
        r \in {<<>>, Codes(<<"7">>)}}
LocalFields ==
    {[key \in Range(FieldKeys) |-> IF key = "result" THEN <<>> ELSE Codes(<<"1">>)],
     [key \in Range(FieldKeys) |-> IF key = "result" THEN Codes(<<"7">>)
                                   ELSE Codes(<<"x", "+", "2">>)]}

StoreWith(item) == [k \in StoreKeys |-> IF k = "calculator" THEN item ELSE NoItem]

\* the browser the link is made in
OpenSenders ==
    {StoreWith(NoItem)} \cup {StoreWith(Item(JsonStringify(PageState(f)))) : f \in SenderFields}

\* the browser the app is opened in: no calculator state, the state of a
\* page, a state with one field, or text that is not JSON
OpenReceivers ==
    {StoreWith(NoItem), StoreWith(Item(JsonStringify(TabState(Codes(<<"1">>))))),
     StoreWith(Item(<<120>>))}
        \cup {StoreWith(Item(JsonStringify(PageState(f)))) : f \in LocalFields}

PlainUrl == Origin \o Pathname \o CalculatorHash

\* the app is opened from a project link, or without one
Openings ==
    {[url |-> buildProjectShareLink(s, 7).text,
      shared |-> OrElse(getTabState(s, "calculator"), EmptyObject)] : s \in OpenSenders}
        \cup {[url |-> PlainUrl, shared |-> JNull]}

otherThanOpen ==
    <<graphVars, bfsVars, parseVars, matVars, detVars, evalVars, calcVars,
      editVars, projVars, histVars, pageVars>>

InitOpen ==
    /\ opstore \in OpenReceivers
    /\ \E o \in Openings : opurl = o.url /\ opshared = o.shared
    /\ opfields = <<>> /\ opstatus = "" /\ opphase = "closed"
    /\ opreported = FALSE /\ opedited = {}
    /\ GraphIdle /\ BfsIdle /\ ParseIdle /\ MatIdle /\ DetIdle /\ EvalIdle /\ CalcIdle
    /\ EditIdle /\ ProjIdle /\ HistIdle /\ PageIdle

\* the first render: App, and CalculatorPage with its useState initialisers
FirstRender ==
    /\ opphase = "closed"
    /\ opfields' = InitialFields(opstore, opurl)
    /\ opphase' = "rendered"
    /\ UNCHANGED <<opstore, opurl, opshared, opstatus, opreported, opedited, otherThanOpen>>

\* the effects of the first commit run children first: CalculatorPage's
\* persist effect
PersistEffect ==
    /\ opphase = "rendered"
    /\ opstore' = persistTabState(opstore, "calculator", PageState(opfields))
    /\ opphase' = "persisted"
    /\ UNCHANGED <<opurl, opshared, opfields, opstatus, opreported, opedited, otherThanOpen>>

\* then App's effect
HydrateEffect ==
    /\ opphase = "persisted"
    /\ LET h == hydrateProjectFromUrl(opstore, opurl) IN
        /\ opstore' = h.store
        /\ opstatus' = IF h.ret THEN LoadedStatus ELSE opstatus
        /\ opreported' = h.ret
    /\ opphase' = "open"
    /\ UNCHANGED <<opurl, opshared, opfields, opedited, otherThanOpen>>

\* setTimeout(() => setStatus(""), 2000)
ClearStatus ==
    /\ opphase = "open" /\ opstatus = LoadedStatus
    /\ opstatus' = ""
    /\ UNCHANGED <<opstore, opurl, opshared, opfields, opphase, opreported, opedited,
                   otherThanOpen>>

\* the user changes a field; the page renders again and its persist effect runs
EditField ==
    /\ opphase = "open"
    /\ Cardinality(opedited) < MaxFieldEdits
    /\ \E key \in Range(FieldKeys) \ opedited : \E v \in EditedTexts :
        /\ v # opfields[key]
        /\ opfields' = [opfields EXCEPT ![key] = v]
        /\ opstore' = persistTabState(opstore, "calculator",
                                      PageState([opfields EXCEPT ![key] = v]))
        /\ opedited' = opedited \cup {key}
    /\ UNCHANGED <<opurl, opshared, opstatus, opphase, opreported, otherThanOpen>>

NextOpen == FirstRender \/ PersistEffect \/ HydrateEffect \/ ClearStatus \/ EditField

SpecOpen == InitOpen /\ [][NextOpen]_vars

\* --- claim ---

\* C25 as stated: once the loading of the project has been reported, the
\* calculator page's fields hold the shared calculator values, the stored
\* calculator state is the shared one until a field is edited, and an edit
\* writes no value back that was stored locally before the link was opened.
OpenedLinkShowsShared ==
    opreported =>
        /\ \A key \in Range(FieldKeys) \ opedited :
            Field(opshared, KeyName(key)).t = "str" =>
                opfields[key] = Field(opshared, KeyName(key)).s
        /\ opedited = {} => getTabState(opstore, "calculator") = opshared
        /\ \A key \in Range(FieldKeys) \ opedited :
            Field(getTabState(opstore, "calculator"), KeyName(key))
                = Field(opshared, KeyName(key))

====
